---- MODULE Spec2Model ----
(***************************************************************************)
(* Model of the recovered-media curation passes of src/recoveryTools:      *)
(* cleanRecoveredFiles (exact dedupe + copy), dedupeImages (perceptual     *)
(* dedupe), dedupeVideos (exact dedupe in place), the collision-avoiding   *)
(* move/copy helpers, the width binning of sortImagesByResolution and the  *)
(* near-black classifier.                                                  *)
(*                                                                         *)
(* A file name is a record [stem, ext]: stem is a sequence of one-character*)
(* tokens, ext is the suffix as written on disk (case kept).  The suffix   *)
(* "_<i>" appended by the helpers is the tokens "_" and the decimal digits *)
(* of i, so that a file literally named a_1.jpg and the first collision    *)
(* name of a.jpg are the same name.                                        *)
(***************************************************************************)
EXTENDS Integers, Sequences, FiniteSets, TLC

VARIABLES
    prog,        \* which pass this behaviour runs
    \* ---- sortImagesByResolution.buildWidthBins / findBin
    widths, binSize, bins, built, found,
    \* ---- analyseImage (cleanRecoveredFiles and filterBlackImages)
    img, thresholds, analysed,
    \* ---- the move/copy helpers applied to one destination directory
    mDir,        \* the directory's listing: a set of [name, content]
    mLog,        \* the helper calls made so far, with the path each returned
    mMade,       \* the directory exists
    \* ---- dedupeImages.main
    diTree,      \* the files below --source: a set of [dir, name, content]
    diPc,        \* "idle", "running", "done" or "aborted" (uncaught exception)
    diMade,      \* what the pass created besides moved files (directories, log file)
    images,      \* the paths collected at line 49 and not yet visited
    seen,        \* pHash -> kept path, in insertion order
    diStats,     \* total, kept, moved, errors
    diLog,       \* what this run did with each image, then its SUMMARY line
    \* ---- cleanRecoveredFiles.main / processFiles
    srcTree,     \* the files in the recup_dir.N folders: [recup, name, content]
    tgtFiles,    \* the files below the target: [dir, name, content]
    tgtMade,     \* directories and log files that exist at the target
    crPc,        \* "idle", "running", "done" or "aborted" (uncaught exception)
    dryRun,      \* args.dry_run of the current or last run
    unvisited,   \* source files the loop has not reached yet
    run,         \* processFiles' locals: stats, hashesSeen, index
    \* history of the runs, for the statements that compare runs
    crRuns,      \* runs started
    order,       \* the files visited by this run, in order
    crFaults,    \* the I/O errors raised in this run
    startedAt,   \* tgtFiles and tgtMade when this run started, and whether the
                 \* run repeats a complete real run on an unchanged source
    lastDry,     \* the last complete dry run on the present source: order, stats
    lastRealOk,  \* a real run completed without error and no file was added since
    \* ---- dedupeVideos.main
    dvTree,      \* the files below --source: [dir, name, content]
    dvPc,        \* "idle", "running" or "done"
    dvDry,       \* args.dry_run
    dvMade,      \* the log file and the VideoDuplicates folder, once created
    videos,      \* the paths collected at line 72 and not yet visited
    dvSeen,      \* digest -> first path seen, as a set of [hash, path]
    dvStats,     \* total, kept, moved, errors
    dvRuns,      \* runs started
    dvPrev,      \* <<>>, or <<how the run before this one went>>
    \* ---- cleanRecoveredFiles.classifyFile applied to one file
    cfName, cfSize, cfMin, cfKind,
    \* ---- sortImagesByResolution.removeEmptyDirs applied to one tree
    reBefore,    \* the tree below root at the call: [dirs, files], root is <<>>
    reFail,      \* the directories whose rmdir raises
    reAfter,     \* <<>> before the call, then <<[tree, removed]>>
    \* ---- sortVideosByDuration.main
    sdSrc,       \* the files below --source: [dir, name, content]
    sdTgt,       \* the files below --target: [dir, name, content]
    sdMade,      \* the directories and the log file the pass created
    sdFfprobe,   \* ffprobe is on PATH
    sdRecursive, \* args.recursive
    sdPc,        \* "idle", "running", "done" or "aborted" (uncaught exception)
    sdTodo,      \* the videos iterVideos has not yielded yet
    sdStats,     \* total, moved, corrupt
    sdLog,       \* what the run did with each video, in order
    sdAtStart,   \* sdSrc and sdTgt when the run started
    \* ---- sortImagesByResolution.main
    siSrc,       \* the files below --source: [dir, name, content]
    siTgt,       \* the tree below --target: [dirs, files]
    siBinSize,   \* args.width_bin
    siRecursive, \* args.recursive
    siPc,        \* "idle", "sizes", "sorting" or "done"
    siFiles,     \* the list files of line 133, as a set of paths
    siTodo,      \* the paths the current loop has not reached yet
    siSizes,     \* the dict sizes, as a set of [path, w]
    siBins,      \* the bins built at line 161
    siStats,     \* errors and moved
    siLog,       \* the ERROR lines written, as [path, what]
    siSummary,   \* <<>>, then <<the SUMMARY line>>
    \* ---- the start of main() of each pass
    suPass,      \* the script
    suSource,    \* what --source is: "dir", "file" or "missing"
    suDry,       \* --dry-run given (the passes that have it)
    suParent,    \* the parent of --target is a directory
    suPc,        \* "start", "loop" (setup done) or "exited"
    suMade,      \* the directories and log files created so far
    suExit,      \* <<>>, then <<the exit status>>
    \* ---- recoveryPipeline.main and its first child, filterBlackImages.main
    \*      (both work on diTree; the second child is dedupeImages)
    plSource,    \* what --source is: "dir" or "missing"
    plPc,        \* "idle", "step1", "step2", "done" or "failed"
    plStarted,   \* the scripts handed to run(), in order
    fbPc,        \* "idle", "running", "done" or "aborted" (uncaught exception)
    fbMade,      \* what filterBlackImages created besides moved files
    fbTodo,      \* the paths collected at lines 71-82 and not yet visited
    fbStats,     \* total, moved, kept
    \* ---- recoveryCommon.printProgress applied to one call
    prDone, prTotal,
    prElapsed,   \* time.time() - startTime, in seconds
    prOut,       \* <<>> before the call, then <<what the call printed>>
    \* ---- two processes, each inside one call of safeMove / safeRename for
    \*      the same destination directory
    rcMade,      \* the destination directory exists
    rcDir,       \* its listing: a set of [name, content]
    rcProc,      \* per process: pc, the source's name, target and i
    \* ---- buildWidthBins, one statement at a time
    blWidths, blSize,
    blPc,        \* "start", "loop" or "returned"
    blLow,       \* the local low
    blLast,      \* <<>>, or <<the bin appended last>>
    blLen        \* len(bins), counted modulo LenWrap

varsBins  == <<widths, binSize, bins, built, found>>
varsBlack == <<img, thresholds, analysed>>
varsMove  == <<mDir, mLog, mMade>>
varsDi    == <<diTree, diPc, diMade, images, seen, diStats, diLog>>
varsCr    == <<srcTree, tgtFiles, tgtMade, crPc, dryRun, unvisited, run,
               crRuns, order, crFaults, startedAt, lastDry, lastRealOk>>
varsDv    == <<dvTree, dvPc, dvDry, dvMade, videos, dvSeen, dvStats, dvRuns,
               dvPrev>>
varsCf    == <<cfName, cfSize, cfMin, cfKind>>
\* the passes and functions of the second half of the module
varsRe    == <<reBefore, reFail, reAfter>>
varsSd    == <<sdSrc, sdTgt, sdMade, sdFfprobe, sdRecursive, sdPc, sdTodo,
               sdStats, sdLog, sdAtStart>>
varsSi    == <<siSrc, siTgt, siBinSize, siRecursive, siPc, siFiles, siTodo,
               siSizes, siBins, siStats, siLog, siSummary>>
varsSu    == <<suPass, suSource, suDry, suParent, suPc, suMade, suExit>>
varsPl    == <<plSource, plPc, plStarted, fbPc, fbMade, fbTodo, fbStats>>
varsPr    == <<prDone, prTotal, prElapsed, prOut>>
\* the functions and passes of the last part of the module
varsRc    == <<rcMade, rcDir, rcProc>>
varsBl    == <<blWidths, blSize, blPc, blLow, blLast, blLen>>
varsThird == <<varsPr, varsRc, varsBl>>
varsSecond == <<varsCf, varsRe, varsSd, varsSi, varsSu, varsPl>>
varsMore  == <<varsCf, varsRe, varsSd, varsSi, varsSu, varsPl, varsThird>>
vars == <<prog, varsBins, varsBlack, varsMove, varsDi, varsCr, varsDv, varsMore>>

\* what a pass leaves alone: the state of the other passes
restBins  == <<varsBlack, varsMove, varsDi, varsCr, varsDv, varsMore>>
restBlack == <<varsBins, varsMove, varsDi, varsCr, varsDv, varsMore>>
restMove  == <<varsBins, varsBlack, varsDi, varsCr, varsDv, varsMore>>
restDi    == <<varsBins, varsBlack, varsMove, varsCr, varsDv, varsMore>>
restCr    == <<varsBins, varsBlack, varsMove, varsDi, varsDv, varsMore>>
restDv    == <<varsBins, varsBlack, varsMove, varsDi, varsCr, varsMore>>
varsFirst == <<varsBins, varsBlack, varsMove, varsDi, varsCr, varsDv>>
restCf    == <<varsFirst, varsRe, varsSd, varsSi, varsSu, varsPl, varsThird>>
restRe    == <<varsFirst, varsCf, varsSd, varsSi, varsSu, varsPl, varsThird>>
restSd    == <<varsFirst, varsCf, varsRe, varsSi, varsSu, varsPl, varsThird>>
restSi    == <<varsFirst, varsCf, varsRe, varsSd, varsSu, varsPl, varsThird>>
restSu    == <<varsFirst, varsCf, varsRe, varsSd, varsSi, varsPl, varsThird>>
\* the pipeline leaves dedupeImages' variables to its second child
restPl    == <<varsBins, varsBlack, varsMove, varsCr, varsDv,
               varsCf, varsRe, varsSd, varsSi, varsSu, varsThird>>
restPr    == <<varsFirst, varsSecond, varsRc, varsBl>>
restRc    == <<varsFirst, varsSecond, varsPr, varsBl>>
restBl    == <<varsFirst, varsSecond, varsPr, varsRc>>

(***************************************************************************)
(* Bounds of the model                                                     *)
(***************************************************************************)
MaxWidth   == 5     \* largest image width drawn
MaxWidths  == 2     \* longest list of widths drawn
MaxBinSize == 3     \* largest --width-bin drawn
MaxLevel   == 2     \* channel mean / stddev and thresholds range over 0..MaxLevel
MaxMoves   == 2     \* helper calls made into the one directory
MaxIndex   == 2     \* largest index handed to copyFile
MaxImages  == 3     \* files below the source of dedupeImages
MaxHash    == 2     \* perceptual hashes range over 0..MaxHash
HashBits   == 2     \* bits of a perceptual hash
MaxSrc     == 3     \* files in the source of cleanRecoveredFiles
NumRecup   == 2     \* recup_dir.1 .. recup_dir.NumRecup
MaxRuns    == 2     \* invocations of a pass in one behaviour
MaxVideos  == 3     \* files below the source of dedupeVideos
MaxSize    == 3     \* sizes and --minVideoSize drawn for classifyFile
MaxDepth   == 2     \* deepest directory below the root handed to removeEmptyDirs
MaxTreeFiles == 1   \* files in that tree
MaxHalf    == 5     \* durations drawn are 0, 0.5, .. MaxHalf/2 seconds
MaxDurVideos == 2   \* files below the source of sortVideosByDuration
MaxSortImages == 2  \* files below the source of sortImagesByResolution
MaxPipeImages == 2  \* files below the source of recoveryPipeline
MaxDone    == 4     \* largest done and total handed to printProgress
LenWrap    == 8     \* len(bins) is counted modulo LenWrap in the stepwise loop
MaxBack    == 6     \* values of low below -MaxBack are shown as -MaxBack

(***************************************************************************)
(* Strings: decimal formatting and lower-casing of suffixes                *)
(***************************************************************************)
Digit(d) ==
    CASE d = 0 -> "0" [] d = 1 -> "1" [] d = 2 -> "2" [] d = 3 -> "3"
      [] d = 4 -> "4" [] d = 5 -> "5" [] d = 6 -> "6" [] d = 7 -> "7"
      [] d = 8 -> "8" [] d = 9 -> "9"

RECURSIVE Str(_)
\* f"{i}" for a non-negative integer: its decimal digits
Str(i) == IF i < 10 THEN <<Digit(i)>> ELSE Str(i \div 10) \o <<Digit(i % 10)>>

\* str.lower() on the suffixes the model uses
Lower(ext) ==
    CASE ext = ".JPG" -> ".jpg"
      [] ext = ".MP4" -> ".mp4"
      [] ext = ".Png" -> ".png"
      [] ext = ".Mov" -> ".mov"
      [] ext = ".TXT" -> ".txt"
      [] OTHER -> ext

(***************************************************************************)
(* sortImagesByResolution: buildWidthBins, findBin                         *)
(***************************************************************************)
RECURSIVE MaxOf(_)
MaxOf(s) ==
    IF Len(s) = 1 THEN s[1]
    ELSE LET m == MaxOf(Tail(s)) IN IF s[1] >= m THEN s[1] ELSE m

RECURSIVE binLoop(_, _, _, _)
\* while low <= maxW: high = low + (binSize - 1); bins.append; low = high + 1
binLoop(low, maxW, size, acc) ==
    IF low <= maxW
    THEN LET high == low + (size - 1)
         IN binLoop(high + 1, maxW, size, Append(acc, <<low, high>>))
    ELSE acc

RECURSIVE mutBinLoop(_, _, _, _)
\* the loop with the bound off by one (low < maxW)
mutBinLoop(low, maxW, size, acc) ==
    IF low < maxW
    THEN LET high == low + (size - 1)
         IN mutBinLoop(high + 1, maxW, size, Append(acc, <<low, high>>))
    ELSE acc

MutBuildWidthBins(ws, size) ==
    IF ws = <<>> THEN <<>> ELSE mutBinLoop(0, MaxOf(ws), size, <<>>)

buildWidthBins(ws, size) ==
    IF ws = <<>> THEN <<>> ELSE binLoop(0, MaxOf(ws), size, <<>>)

\* index of the first bin with low <= width <= high, 0 when the loop ends
\* without returning
findBinIndex(width, bs) ==
    LET hits == {i \in 1..Len(bs) : bs[i][1] <= width /\ width <= bs[i][2]}
    IN IF hits = {} THEN 0 ELSE CHOOSE i \in hits : \A j \in hits : i <= j

\* the scan left out: always the last bin
MutFindBin(width, bs) == [bin |-> bs[Len(bs)], fallback |-> TRUE]

\* the bin returned, and whether it is the bins[-1] fallback
findBin(width, bs) ==
    LET i == findBinIndex(width, bs)
    IN IF i # 0 THEN [bin |-> bs[i], fallback |-> FALSE]
       ELSE [bin |-> bs[Len(bs)], fallback |-> TRUE]

(***************************************************************************)
(* analyseImage: an image file is what the two PIL steps do with it        *)
(*   verifyOk: Image.open + verify() does not raise                        *)
(*   statOk:   Image.open().convert("RGB") + ImageStat does not raise      *)
(*   mean, stddev: the three channel statistics of the RGB conversion      *)
(***************************************************************************)
Channels == 1..3

allLeq(values, thresh) == \A c \in Channels : values[c] <= thresh

\* a strict comparison in place of the inclusive one
MutAnalyseImage(image, blackMeanThresh, blackStdThresh) ==
    IF ~image.verifyOk THEN <<FALSE, FALSE>>
    ELSE IF ~image.statOk THEN <<FALSE, FALSE>>
    ELSE <<TRUE, (\A c \in Channels : image.mean[c] < blackMeanThresh)
                 /\ allLeq(image.stddev, blackStdThresh)>>

\* cleanRecoveredFiles.analyseImage: returns <<isValid, isBlack>>
analyseImage(image, blackMeanThresh, blackStdThresh) ==
    IF ~image.verifyOk THEN <<FALSE, FALSE>>
    ELSE IF ~image.statOk THEN <<FALSE, FALSE>>
    ELSE <<TRUE, allLeq(image.mean, blackMeanThresh)
                 /\ allLeq(image.stddev, blackStdThresh)>>

\* filterBlackImages.analyseImage: the same function, second copy
filterAnalyseImage(image, blackMean, blackStd) ==
    IF ~image.verifyOk THEN <<FALSE, FALSE>>
    ELSE IF ~image.statOk THEN <<FALSE, FALSE>>
    ELSE <<TRUE, allLeq(image.mean, blackMean) /\ allLeq(image.stddev, blackStd)>>

(***************************************************************************)
(* Directories and the collision-avoiding helpers.  A listing is a set of  *)
(* entries [name, content]; rename() and copy2() replace an existing entry *)
(* of the same name, as the system calls do.                               *)
(***************************************************************************)
Name(stem, ext) == [stem |-> stem, ext |-> ext]

namesOf(dir) == {e.name : e \in dir}

\* Path.exists() for a name in a directory
exists(dir, name) == name \in namesOf(dir)

\* f"{stem}_{i}{suffix}"
suffixed(stem, i, ext) == Name(stem \o <<"_">> \o Str(i), ext)

\* a rename that would keep what the target name held
MutWriteEntry(dir, name, content) ==
    dir \cup {[name |-> name, content |-> content]}

\* os.rename / shutil.copy2 into a directory: the target name now holds
\* content, whatever it held before
writeEntry(dir, name, content) ==
    {e \in dir : e.name # name} \cup {[name |-> name, content |-> content]}

RECURSIVE moveLoop(_, _, _, _)
\* i = 1; while target.exists(): target = dir / f"{stem}_{i}{suffix}"; i += 1
moveLoop(dir, name, target, i) ==
    IF exists(dir, target)
    THEN moveLoop(dir, name, suffixed(name.stem, i, name.ext), i + 1)
    ELSE target

\* the helper without its existence loop
MutSafeMoveTarget(dir, src) == src

\* dedupeVideos.safeMove: the path src is renamed to in dstDir
safeMoveTarget(dir, src) == moveLoop(dir, src, src, 1)

\* the helper taking the first numbered name without looking at dst
MutSafeRenameTarget(dir, dst) == moveLoop(dir, dst, suffixed(dst.stem, 1, dst.ext), 2)

\* sortImagesByResolution.safeRename: the path used for the requested dst
safeRenameTarget(dir, dst) == moveLoop(dir, dst, dst, 1)

\* the inline loop left out
MutInlineTarget(dir, src) == src

\* the inline loops of dedupeImages, filterBlackImages, sortVideosByDuration
inlineTarget(dir, src) == moveLoop(dir, src, src, 1)

RECURSIVE copyLoop(_, _, _)
\* while out.exists(): index += 1; out = targetDir / f"{stem}_{index}{suffix.lower()}"
copyLoop(dir, src, index) ==
    LET out == suffixed(src.stem, index, Lower(src.ext))
    IN IF exists(dir, out) THEN copyLoop(dir, src, index + 1) ELSE out

\* cleanRecoveredFiles.copyFile: the path src is copied to in targetDir
copyFileTarget(dir, src, index) == copyLoop(dir, src, index)

(***************************************************************************)
(* Trees: the files below a root, each [dir, name, content] with dir the   *)
(* sequence of directory names from the root.                              *)
(***************************************************************************)
PathOf(e) == [dir |-> e.dir, name |-> e.name]

\* the listing of one directory of a tree
listing(tree, dir) == {[name |-> e.name, content |-> e.content] : e \in {x \in tree : x.dir = dir}}

\* Path.is_relative_to(root / top)
isRelativeTo(path, top) == Len(path.dir) >= 1 /\ path.dir[1] = top

\* os.rename(src, dir/name): the entry leaves its place and replaces
\* whatever the target path held
renameEntry(tree, e, dir, name) ==
    {x \in tree \ {e} : ~(x.dir = dir /\ x.name = name)}
        \cup {[dir |-> dir, name |-> name, content |-> e.content]}

IMAGE_EXTS_COMMON ==
    {".jpg", ".jpeg", ".png", ".tif", ".tiff", ".bmp", ".gif", ".webp",
     ".heic", ".cr2", ".nef"}

\* recoveryCommon.isImage
commonIsImage(name) == Lower(name.ext) \in IMAGE_EXTS_COMMON

VIDEO_EXTS_COMMON ==
    {".mp4", ".mov", ".avi", ".mkv", ".mpg", ".mpeg", ".mts", ".m2ts", ".wmv", ".3gp"}

\* recoveryCommon.isVideo
commonIsVideo(name) == Lower(name.ext) \in VIDEO_EXTS_COMMON

\* dedupeVideos.hashFile: SHA-256 of the bytes
dvHashFile(content) == <<"sha256", content.bytes>>

(***************************************************************************)
(* dedupeImages: perceptual hashes and the scan of the kept images         *)
(***************************************************************************)
PHASH_THRESHOLD == 0

Bit(h, k) == (h \div (2 ^ k)) % 2

\* imagehash: a - b is the number of differing bits
Distance(a, b) == Cardinality({k \in 0..(HashBits - 1) : Bit(a, k) # Bit(b, k)})

\* the scan with a strict comparison
MutMatched(kept, phash) ==
    LET hits == {i \in 1..Len(kept) : Distance(phash, kept[i].hash) < PHASH_THRESHOLD}
    IN IF hits = {} THEN 0 ELSE CHOOSE i \in hits : \A j \in hits : i <= j

\* the scan stopping after the first kept image
MutMatchedFirst(kept, phash) ==
    IF kept # <<>> /\ Distance(phash, kept[1].hash) <= PHASH_THRESHOLD THEN 1 ELSE 0

\* for existingHash, existingPath in seen.items(): first one within the
\* threshold; 0 stands for matched = None
matched(kept, phash) ==
    LET hits == {i \in 1..Len(kept) : Distance(phash, kept[i].hash) <= PHASH_THRESHOLD}
    IN IF hits = {} THEN 0 ELSE CHOOSE i \in hits : \A j \in hits : i <= j

\* seen[phash] = imgPath on an insertion-ordered dict
setSeen(kept, phash, path) ==
    IF \E i \in 1..Len(kept) : kept[i].hash = phash
    THEN [i \in 1..Len(kept) |->
             IF kept[i].hash = phash THEN [hash |-> phash, path |-> path] ELSE kept[i]]
    ELSE Append(kept, [hash |-> phash, path |-> path])

(***************************************************************************)
(* cleanRecoveredFiles: classification, hashing, the resume check and the  *)
(* body of the loop of processFiles                                        *)
(***************************************************************************)
IMAGE_EXTS == {".jpg", ".jpeg", ".png", ".tif", ".tiff", ".bmp", ".gif", ".webp"}
VIDEO_EXTS == {".mp4", ".mov", ".avi", ".mkv", ".mpg", ".mpeg", ".mts", ".m2ts", ".wmv"}

isImage(name) == Lower(name.ext) \in IMAGE_EXTS
isVideo(name) == Lower(name.ext) \in VIDEO_EXTS

\* the defaults of --minVideoSize, --blackMean, --blackStd
minVideoSize == 10240
blackMean == 2
blackStd == 3

\* the video test off by one: a video of exactly minVideoSize bytes is tiny
MutClassifyFile(name, size, minSize) ==
    IF size = 0 THEN "skip_tiny"
    ELSE IF isImage(name) THEN "image"
    ELSE IF isVideo(name) THEN (IF size > minSize THEN "video" ELSE "skip_tiny")
    ELSE "other"

classifyFile(name, size, minSize) ==
    IF size = 0 THEN "skip_tiny"
    ELSE IF isImage(name) THEN "image"
    ELSE IF isVideo(name) THEN (IF size >= minSize THEN "video" ELSE "skip_tiny")
    ELSE "other"

\* SHA-256 of the bytes: equal for equal bytes, different otherwise
hashFile(content) == <<"sha256", content.bytes>>

\* the hashes of the files already below Images/, Videos/, Other/
seedExistingHashes(files) == {hashFile(e.content) : e \in files}

isPrefix(p, q) == Len(p) <= Len(q) /\ SubSeq(q, 1, Len(p)) = p

\* fnmatch of f"{stem}_*{suffix.lower()}" against a file name
globMatches(stem, ext, name) ==
    /\ isPrefix(stem \o <<"_">>, name.stem)
    /\ (Lower(ext) = "" \/ name.ext = Lower(ext))

\* any(destDir.glob(pattern))
resumeHit(files, destDir, name) ==
    \E e \in listing(files, <<destDir>>) : globMatches(name.stem, name.ext, e.name)

bump(stats, field) == [stats EXCEPT ![field] = @ + 1]

seenField(kind) ==
    CASE kind = "image" -> "imagesSeen" [] kind = "video" -> "videosSeen"
      [] OTHER -> "othersSeen"
\* the copy counted under the seen counter
MutCopiedField(kind) == seenField(kind)

copiedField(kind) ==
    CASE kind = "image" -> "imagesCopied" [] kind = "video" -> "videosCopied"
      [] OTHER -> "othersCopied"
destDirOf(kind) ==
    CASE kind = "image" -> "Images" [] kind = "video" -> "Videos" [] OTHER -> "Other"

\* how one iteration ended: normally, or with an I/O error that was caught
\* (the loop goes on) or not (the exception leaves processFiles)
Normal(r) == r @@ [raised |-> "none", left |-> FALSE]
Caught(r, what) == r @@ [raised |-> what, left |-> FALSE]
Uncaught(r, what) == r @@ [raised |-> what, left |-> TRUE]

\* copyFile(path, dir, index): shutil.copy2 to the free name
copyInto(files, dir, name, content, index) ==
    LET out == copyFileTarget(listing(files, <<dir>>), name, index)
    IN {x \in files : ~(x.dir = <<dir>> /\ x.name = out)}
           \cup {[dir |-> <<dir>>, name |-> out, content |-> content]}

\* the dry-run test left out: the file is copied in either mode
MutTakeFile(f, st, kind, dry, io) ==
    LET taken == [st EXCEPT !.stats = bump(@, copiedField(kind)), !.index = @ + 1]
    IN IF io = "copy" THEN Uncaught(st, "copy")
       ELSE Normal([taken EXCEPT !.files =
                       copyInto(st.files, destDirOf(kind), f.name, f.content, st.index)])

\* lines 291-312: a file that is new to hashesSeen is counted, and copied
\* unless this is a dry run
takeFile(f, st, kind, dry, io) ==
    LET taken == [st EXCEPT !.stats = bump(@, copiedField(kind)), !.index = @ + 1]
    IN IF dry THEN Normal(taken)
       ELSE IF io = "copy" THEN Uncaught(st, "copy")
       ELSE Normal([taken EXCEPT !.files =
                       copyInto(st.files, destDirOf(kind), f.name, f.content, st.index)])

\* lines 231-312 for one file.  st is [stats, hashesSeen, index, files];
\* io names the call that raises an I/O error for this file, if reached.
processFile(f, st, dry, io) ==
    LET counted == [st EXCEPT !.stats = bump(@, "totalFiles")]
        kind == classifyFile(f.name, f.content.size, minVideoSize)
        a == analyseImage(f.content.image, blackMean, blackStd)
        known == [counted EXCEPT !.stats = bump(@, seenField(kind))]
        skipped == [known EXCEPT !.stats = bump(@, "duplicatesSkipped")]
        fileHash == hashFile(f.content)
        added == [known EXCEPT !.hashesSeen = @ \cup {fileHash}]
    IN IF io = "stat" THEN Uncaught(counted, "stat")
       ELSE IF kind = "skip_tiny"
            THEN Normal([counted EXCEPT !.stats = bump(@, "tinySkipped")])
       ELSE IF kind = "image" /\ ~a[1]
            THEN Normal([known EXCEPT !.stats = bump(@, "imageInvalid")])
       ELSE IF kind = "image" /\ a[2]
            THEN Normal([known EXCEPT !.stats = bump(@, "imageBlack")])
       ELSE IF ~dry /\ resumeHit(st.files, destDirOf(kind), f.name) THEN Normal(skipped)
       ELSE IF io = "hash" THEN Caught(skipped, "hash")
       ELSE IF fileHash \in st.hashesSeen THEN Normal(skipped)
       ELSE takeFile(f, added, kind, dry, io)

(***************************************************************************)
(* Idle values: the state of a pass that this behaviour does not run       *)
(***************************************************************************)
ZeroStats ==
    [totalFiles |-> 0, imagesSeen |-> 0, videosSeen |-> 0, othersSeen |-> 0,
     tinySkipped |-> 0, imageInvalid |-> 0, imageBlack |-> 0,
     duplicatesSkipped |-> 0, imagesCopied |-> 0, videosCopied |-> 0,
     othersCopied |-> 0]

NoRun == [stats |-> ZeroStats, hashesSeen |-> {}, index |-> 1]

IdleCr ==
    /\ srcTree = {} /\ tgtFiles = {} /\ tgtMade = {} /\ crPc = "idle"
    /\ dryRun = FALSE /\ unvisited = {} /\ run = NoRun
    /\ crRuns = 0 /\ order = <<>> /\ crFaults = {}
    /\ startedAt = [files |-> {}, made |-> {}, repeat |-> FALSE]
    /\ lastDry = <<>> /\ lastRealOk = FALSE
IdleDi ==
    /\ diTree = {} /\ diPc = "idle" /\ diMade = {} /\ images = {}
    /\ seen = <<>> /\ diStats = [total |-> 0, kept |-> 0, moved |-> 0, errors |-> 0] /\ diLog = <<>>
IdleMove  == mDir = {} /\ mLog = <<>> /\ mMade = FALSE
IdleBins  == widths = <<>> /\ binSize = 1 /\ bins = <<>> /\ built = FALSE /\ found = <<>>
IdleBlack == img = <<>> /\ thresholds = <<>> /\ analysed = <<>>

IdleDv ==
    /\ dvTree = {} /\ dvPc = "idle" /\ dvDry = FALSE /\ dvMade = {} /\ videos = {}
    /\ dvSeen = {} /\ dvStats = [total |-> 0, kept |-> 0, moved |-> 0, errors |-> 0]
    /\ dvRuns = 0 /\ dvPrev = <<>>

IdleCf == cfName = <<>> /\ cfSize = 0 /\ cfMin = 0 /\ cfKind = <<>>
IdleFirst == IdleBins /\ IdleBlack /\ IdleMove /\ IdleDi /\ IdleCr /\ IdleDv
IdleRe == reBefore = <<>> /\ reFail = {} /\ reAfter = <<>>
IdleSd ==
    /\ sdSrc = {} /\ sdTgt = {} /\ sdMade = {} /\ sdFfprobe = TRUE
    /\ sdRecursive = FALSE /\ sdPc = "idle" /\ sdTodo = {}
    /\ sdStats = [total |-> 0, moved |-> 0, corrupt |-> 0] /\ sdLog = <<>>
    /\ sdAtStart = <<>>
IdleSi ==
    /\ siSrc = {} /\ siTgt = <<>> /\ siBinSize = 1 /\ siRecursive = FALSE
    /\ siPc = "idle" /\ siFiles = {} /\ siTodo = {} /\ siSizes = {}
    /\ siBins = <<>> /\ siStats = [errors |-> 0, moved |-> 0]
    /\ siLog = {} /\ siSummary = <<>>
IdleSu ==
    /\ suPass = "" /\ suSource = "dir" /\ suDry = FALSE /\ suParent = TRUE
    /\ suPc = "start" /\ suMade = {} /\ suExit = <<>>
IdlePl ==
    /\ plSource = "dir" /\ plPc = "idle" /\ plStarted = <<>>
    /\ fbPc = "idle" /\ fbMade = {} /\ fbTodo = {}
    /\ fbStats = [total |-> 0, moved |-> 0, kept |-> 0]
IdlePr == prDone = 0 /\ prTotal = 0 /\ prElapsed = 0 /\ prOut = <<>>
IdleRc == rcMade = FALSE /\ rcDir = {} /\ rcProc = <<>>
IdleBl ==
    /\ blWidths = <<>> /\ blSize = 1 /\ blPc = "start" /\ blLow = 0
    /\ blLast = <<>> /\ blLen = 0
IdleThird == IdlePr /\ IdleRc /\ IdleBl
IdleSecond == IdleCf /\ IdleRe /\ IdleSd /\ IdleSi /\ IdleSu /\ IdlePl
IdleMore  == IdleSecond /\ IdleThird
OnlyPr    == IdleFirst /\ IdleSecond /\ IdleRc /\ IdleBl
OnlyRc    == IdleFirst /\ IdleSecond /\ IdlePr /\ IdleBl
OnlyBl    == IdleFirst /\ IdleSecond /\ IdlePr /\ IdleRc
OnlyCf    == IdleFirst /\ IdleRe /\ IdleSd /\ IdleSi /\ IdleSu /\ IdlePl /\ IdleThird
OnlyRe    == IdleFirst /\ IdleCf /\ IdleSd /\ IdleSi /\ IdleSu /\ IdlePl /\ IdleThird
OnlySd    == IdleFirst /\ IdleCf /\ IdleRe /\ IdleSi /\ IdleSu /\ IdlePl /\ IdleThird
OnlySi    == IdleFirst /\ IdleCf /\ IdleRe /\ IdleSd /\ IdleSu /\ IdlePl /\ IdleThird
OnlySu    == IdleFirst /\ IdleCf /\ IdleRe /\ IdleSd /\ IdleSi /\ IdlePl /\ IdleThird

OnlyPl ==
    /\ IdleBins /\ IdleBlack /\ IdleMove /\ IdleCr /\ IdleDv
    /\ IdleCf /\ IdleRe /\ IdleSd /\ IdleSi /\ IdleSu /\ IdleThird

OnlyBins  == IdleBlack /\ IdleMove /\ IdleDi /\ IdleCr /\ IdleDv /\ IdleMore
OnlyBlack == IdleBins /\ IdleMove /\ IdleDi /\ IdleCr /\ IdleDv /\ IdleMore
OnlyMove  == IdleBins /\ IdleBlack /\ IdleDi /\ IdleCr /\ IdleDv /\ IdleMore
OnlyDi    == IdleBins /\ IdleBlack /\ IdleMove /\ IdleCr /\ IdleDv /\ IdleMore
OnlyCr    == IdleBins /\ IdleBlack /\ IdleMove /\ IdleDi /\ IdleDv /\ IdleMore
OnlyDv    == IdleBins /\ IdleBlack /\ IdleMove /\ IdleDi /\ IdleCr /\ IdleMore

(***************************************************************************)
(* SpecClassify: classifyFile applied to one drawn file                    *)
(***************************************************************************)
CfExts == {".jpg", ".JPG", ".Png", ".mp4", ".MP4", ".Mov", ".txt", ".TXT", "", ".jpgx"}

InitClassify ==
    /\ prog = "classifyFile"
    /\ cfName \in {Name(<<"f">>, x) : x \in CfExts}
    /\ cfSize \in 0..MaxSize
    /\ cfMin \in 0..(MaxSize + 1)
    /\ cfKind = <<>>
    /\ OnlyCf

Classify ==
    /\ prog = "classifyFile"
    /\ cfKind' = <<classifyFile(cfName, cfSize, cfMin)>>
    /\ UNCHANGED <<prog, cfName, cfSize, cfMin, restCf>>

NextClassify == Classify

SpecClassify == InitClassify /\ [][NextClassify]_vars

(***************************************************************************)
(* removeEmptyDirs.  A tree is [dirs, files]: dirs is a set of paths        *)
(* (sequences of names, the root is <<>>), files a set of [dir, name].     *)
(***************************************************************************)
\* d.iterdir() yields something
hasEntry(t, d) ==
    \/ \E c \in t.dirs : Len(c) = Len(d) + 1 /\ isPrefix(d, c)
    \/ \E f \in t.files : f.dir = d

\* the directories of depth k that the loop finds empty when it reaches them
emptyAt(t, k) == {d \in t.dirs : Len(d) = k /\ ~hasEntry(t, d)}

RECURSIVE MutRemoveFrom(_, _, _, _, _)
\* the entries visited shallowest first
MutRemoveFrom(t, k, last, fail, removed) ==
    IF k > last THEN [tree |-> t, removed |-> removed]
    ELSE LET gone == emptyAt(t, k) \ fail
         IN MutRemoveFrom([t EXCEPT !.dirs = @ \ gone], k + 1, last, fail,
                          removed + Cardinality(gone))

RECURSIVE removeFrom(_, _, _, _)
\* lines 79-90 for the entries of depth k, then the shallower ones
removeFrom(t, k, fail, removed) ==
    IF k < 1 THEN [tree |-> t, removed |-> removed]
    ELSE LET gone == emptyAt(t, k) \ fail
         IN removeFrom([t EXCEPT !.dirs = @ \ gone], k - 1, fail,
                       removed + Cardinality(gone))

\* the largest len(p.parts) among the entries
depthOf(t) == CHOOSE k \in {Len(d) : d \in t.dirs} : \A d \in t.dirs : Len(d) <= k

\* the same loop over the entries sorted the other way
MutRemoveEmptyDirs(t, fail) == MutRemoveFrom(t, 1, depthOf(t), fail, 0)

\* removeEmptyDirs(root, log): root.rglob("*") sorted deepest first
removeEmptyDirs(t, fail) == removeFrom(t, depthOf(t), fail, 0)

TreeNames == {"a", "b"}
TreeDirs == UNION {[1..n -> TreeNames] : n \in 1..MaxDepth}
Trees ==
    {[dirs |-> ds \cup {<<>>}, files |-> fs] :
        ds \in {x \in SUBSET TreeDirs :
                    \A d \in x : Len(d) > 1 => SubSeq(d, 1, Len(d) - 1) \in x},
        fs \in {y \in SUBSET [dir : TreeDirs \cup {<<>>}, name : {"f.jpg"}] :
                    Cardinality(y) <= MaxTreeFiles}}

InitRmdir ==
    /\ prog = "removeEmptyDirs"
    /\ reBefore \in {t \in Trees : \A f \in t.files : f.dir \in t.dirs}
    /\ reFail \in {x \in SUBSET reBefore.dirs : Cardinality(x) <= 1 /\ <<>> \notin x}
    /\ reAfter = <<>>
    /\ OnlyRe

DoRemoveEmptyDirs ==
    /\ prog = "removeEmptyDirs"
    /\ reAfter' = <<removeEmptyDirs(reBefore, reFail)>>
    /\ UNCHANGED <<prog, reBefore, reFail, restRe>>

NextRmdir == DoRemoveEmptyDirs

SpecRmdir == InitRmdir /\ [][NextRmdir]_vars

(***************************************************************************)
(* sortVideosByDuration.  A video's content is [from, probe]: the place it *)
(* was recovered to, and what ffprobe prints for it: <<>> (non-zero exit   *)
(* or output that does not parse) or <<its duration in half seconds>>.     *)
(***************************************************************************)
\* int(round(dur)): Python rounds a tie to the even neighbour
pyRound(halves) ==
    LET q == halves \div 2
    IN IF halves % 2 = 0 THEN q ELSE IF q % 2 = 0 THEN q ELSE q + 1

\* int(dur) in place of int(round(dur))
MutGetDurationSeconds(content, onPath) ==
    IF ~onPath THEN <<>>
    ELSE IF content.probe = <<>> THEN <<>>
    ELSE <<content.probe[1] \div 2>>

\* getDurationSeconds(path): <<>> is None.  Any exception, the
\* FileNotFoundError of a missing ffprobe included, gives None.
getDurationSeconds(content, onPath) ==
    IF ~onPath THEN <<>>
    ELSE IF content.probe = <<>> THEN <<>>
    ELSE <<pyRound(content.probe[1])>>

\* "corrupt" if dur is None else f"{dur}_sec"
folderName(dur) == IF dur = <<>> THEN <<"corrupt">> ELSE Str(dur[1]) \o <<"_sec">>

\* iterVideos(srcDir, recursive)
iterVideos(tree, recursive) ==
    {e \in tree : commonIsVideo(e.name) /\ (recursive \/ e.dir = <<>>)}

SdProbes == {<<>>} \cup {<<h>> : h \in 0..MaxHalf}
SdSrcDirs == {<<>>, <<"sub">>}
SdCandidates ==
    {[dir |-> d, name |-> Name(<<"v">>, ".mp4"), content |-> [from |-> d, probe |-> p]] :
        d \in SdSrcDirs, p \in SdProbes}
    \cup {[dir |-> <<>>, name |-> Name(<<"n">>, ".txt"), content |-> [from |-> <<"n">>, probe |-> <<>>]]}
SdOld == [from |-> <<"old">>, probe |-> <<>>]
SdTargets ==
    SUBSET {[dir |-> <<folderName(d)>>, name |-> Name(<<"v">>, ".mp4"), content |-> SdOld] :
               d \in {<<>>, <<2>>}}

InitDuration ==
    /\ prog = "sortVideosByDuration"
    /\ sdSrc \in {t \in SUBSET SdCandidates :
                     /\ Cardinality(t) <= MaxDurVideos
                     /\ \A x, y \in t : PathOf(x) = PathOf(y) => x = y}
    /\ sdTgt \in SdTargets
    /\ sdMade = {<<e.dir[1]>> : e \in sdTgt}
    /\ sdFfprobe \in BOOLEAN
    /\ sdRecursive \in BOOLEAN
    /\ sdPc = "idle" /\ sdTodo = {}
    /\ sdStats = [total |-> 0, moved |-> 0, corrupt |-> 0] /\ sdLog = <<>>
    /\ sdAtStart = <<>>
    /\ OnlySd

\* lines 60-76: the target and the log are made, the videos are counted
SdStart ==
    /\ prog = "sortVideosByDuration"
    /\ sdPc = "idle"
    /\ sdPc' = "running"
    /\ sdMade' = sdMade \cup {<<<<"target/">>>>, <<<<"sortVideosByDuration.log">>>>}
    /\ sdTodo' = {PathOf(e) : e \in iterVideos(sdSrc, sdRecursive)}
    /\ sdStats' = [total |-> Cardinality(iterVideos(sdSrc, sdRecursive)),
                    moved |-> 0, corrupt |-> 0]
    /\ sdAtStart' = <<[src |-> sdSrc, tgt |-> sdTgt]>>
    /\ UNCHANGED <<prog, sdSrc, sdTgt, sdFfprobe, sdRecursive, sdLog, restSd>>

\* lines 78-102 for the next video.  io names the call that raises for
\* this file: folder.mkdir (nothing catches it) or f.rename (caught).
SdSort ==
    /\ prog = "sortVideosByDuration"
    /\ sdPc = "running"
    /\ \E f \in sdTodo, io \in {"none", "mkdir", "rename"} :
         LET e == CHOOSE x \in sdSrc : PathOf(x) = f
             dur == getDurationSeconds(e.content, sdFfprobe)
             folder == <<folderName(dur)>>
             target == inlineTarget(listing(sdTgt, folder), f.name)
             entry == [path |-> f, content |-> e.content, dur |-> dur,
                       folder |-> folder, target |-> target, io |-> io]
         IN /\ sdTodo' = sdTodo \ {f}
            /\ sdLog' = Append(sdLog, entry)
            /\ IF io = "mkdir"
               THEN /\ sdPc' = "aborted"
                    /\ UNCHANGED <<sdSrc, sdTgt, sdMade, sdStats>>
               ELSE /\ sdPc' = "running"
                    /\ sdMade' = sdMade \cup {folder}
                    /\ IF io = "rename"
                       THEN UNCHANGED <<sdSrc, sdTgt, sdStats>>
                       ELSE /\ sdSrc' = sdSrc \ {e}
                            /\ sdTgt' = {x \in sdTgt : ~(x.dir = folder /\ x.name = target)}
                                   \cup {[dir |-> folder, name |-> target, content |-> e.content]}
                            /\ sdStats' = [sdStats EXCEPT
                                   !.moved = @ + 1,
                                   !.corrupt = IF dur = <<>> THEN @ + 1 ELSE @]
    /\ UNCHANGED <<prog, sdFfprobe, sdRecursive, sdAtStart, restSd>>

\* lines 104-108: the SUMMARY line
SdFinish ==
    /\ prog = "sortVideosByDuration"
    /\ sdPc = "running" /\ sdTodo = {}
    /\ sdPc' = "done"
    /\ UNCHANGED <<prog, sdSrc, sdTgt, sdMade, sdFfprobe, sdRecursive, sdTodo,
                   sdStats, sdLog, sdAtStart, restSd>>

NextDuration == SdStart \/ SdSort \/ SdFinish

SpecDuration == InitDuration /\ [][NextDuration]_vars

(***************************************************************************)
(* sortImagesByResolution.main.  An image's content is [from, size]: size  *)
(* is <<>> when Image.open raises, <<w>> when it gives width w.            *)
(***************************************************************************)
\* f"{n:04d}"
pad4(n) == LET d == Str(n) IN [i \in 1..(4 - Len(d)) |-> "0"] \o d

\* binLabel(low, high)
binLabel(low, high) == <<"w_">> \o pad4(low) \o <<"-">> \o pad4(high)

\* iterCandidateFiles(srcDir, recursive)
iterCandidateFiles(tree, recursive) ==
    {e \in tree : commonIsImage(e.name) /\ (recursive \/ e.dir = <<>>)}

SiSizesDrawn == {<<>>} \cup {<<w>> : w \in 0..MaxWidth}
SiCandidates ==
    {[dir |-> d, name |-> Name(<<"v">>, ".jpg"), content |-> [from |-> d, size |-> z]] :
        d \in {<<>>, <<"sub">>}, z \in SiSizesDrawn}
SiOld == [from |-> <<"old">>, size |-> <<>>]
\* targets: empty, with an empty folder, with a file in the first bucket
SiTargets ==
    {[dirs |-> {<<>>} \cup ds \cup {f.dir : f \in fs}, files |-> fs] :
        ds \in SUBSET {<<<<"old">>>>},
        fs \in SUBSET {[dir |-> <<binLabel(0, 1)>>, name |-> Name(<<"v">>, ".jpg"),
                        content |-> SiOld]}}

InitSort ==
    /\ prog = "sortImagesByResolution"
    /\ siSrc \in {t \in SUBSET SiCandidates :
                     /\ Cardinality(t) <= MaxSortImages
                     /\ \A x, y \in t : PathOf(x) = PathOf(y) => x = y}
    /\ siTgt \in SiTargets
    /\ siBinSize \in 1..MaxBinSize
    /\ siRecursive \in BOOLEAN
    /\ siPc = "idle" /\ siFiles = {} /\ siTodo = {} /\ siSizes = {}
    /\ siBins = <<>> /\ siStats = [errors |-> 0, moved |-> 0]
    /\ siLog = {} /\ siSummary = <<>>
    /\ OnlySi

\* lines 121-142: the files are listed once
SiStart ==
    /\ prog = "sortImagesByResolution"
    /\ siPc = "idle"
    /\ siPc' = "sizes"
    /\ siFiles' = {PathOf(e) : e \in iterCandidateFiles(siSrc, siRecursive)}
    /\ siTodo' = siFiles'
    /\ UNCHANGED <<prog, siSrc, siTgt, siBinSize, siRecursive, siSizes, siBins,
                   siStats, siLog, siSummary, restSi>>

\* lines 145-157 for the next file
SiReadSize ==
    /\ prog = "sortImagesByResolution"
    /\ siPc = "sizes"
    /\ \E f \in siTodo :
         LET e == CHOOSE x \in siSrc : PathOf(x) = f
         IN /\ siTodo' = siTodo \ {f}
            /\ IF e.content.size = <<>>
               THEN /\ siStats' = [siStats EXCEPT !.errors = @ + 1]
                    /\ siLog' = siLog \cup {[path |-> f, what |-> "size"]}
                    /\ UNCHANGED siSizes
               ELSE /\ siSizes' = siSizes \cup {[path |-> f, w |-> e.content.size[1]]}
                    /\ UNCHANGED <<siStats, siLog>>
    /\ UNCHANGED <<prog, siSrc, siTgt, siBinSize, siRecursive, siPc, siFiles,
                   siBins, siSummary, restSi>>

\* the list widths of line 154, in some order
widthList(sizes) ==
    CHOOSE ws \in [1..Cardinality(sizes) -> {z.w : z \in sizes}] :
        \A z \in sizes : Cardinality({i \in DOMAIN ws : ws[i] = z.w})
                             = Cardinality({y \in sizes : y.w = z.w})

\* lines 161-176: the bins; without bins the run ends here with the
\* SUMMARY line of line 163
SiBuildBins ==
    /\ prog = "sortImagesByResolution"
    /\ siPc = "sizes" /\ siTodo = {}
    /\ siBins' = buildWidthBins(widthList(siSizes), siBinSize)
    /\ IF siBins' = <<>>
       THEN /\ siPc' = "done"
            /\ siSummary' = <<[total |-> 0, moved |-> 0, removedDirs |-> 0, errors |-> 0]>>
            /\ UNCHANGED siTodo
       ELSE /\ siPc' = "sorting"
            /\ siTodo' = siFiles
            /\ UNCHANGED siSummary
    /\ UNCHANGED <<prog, siSrc, siTgt, siBinSize, siRecursive, siFiles, siSizes,
                   siStats, siLog, restSi>>

\* lines 178-197 for the next file.  io names the call of safeRename that
\* raises for this file: dst.parent.mkdir or src.rename; main catches both.
SiSort ==
    /\ prog = "sortImagesByResolution"
    /\ siPc = "sorting"
    /\ \E f \in siTodo, io \in {"none", "mkdir", "rename"} :
         LET e == CHOOSE x \in siSrc : PathOf(x) = f
             known == {z \in siSizes : z.path = f}
             w == (CHOOSE z \in known : TRUE).w
             bin == findBin(w, siBins).bin
             bucketDir == <<binLabel(bin[1], bin[2])>>
             target == safeRenameTarget(listing(siTgt.files, bucketDir), f.name)
         IN /\ siTodo' = siTodo \ {f}
            /\ IF known = {}
               THEN /\ io = "none"
                    /\ UNCHANGED <<siSrc, siTgt, siStats, siLog>>
               ELSE IF io = "mkdir"
               THEN /\ siStats' = [siStats EXCEPT !.errors = @ + 1]
                    /\ siLog' = siLog \cup {[path |-> f, what |-> "rename"]}
                    /\ UNCHANGED <<siSrc, siTgt>>
               ELSE IF io = "rename"
               THEN /\ siStats' = [siStats EXCEPT !.errors = @ + 1]
                    /\ siLog' = siLog \cup {[path |-> f, what |-> "rename"]}
                    /\ siTgt' = [siTgt EXCEPT !.dirs = @ \cup {bucketDir}]
                    /\ UNCHANGED siSrc
               ELSE /\ siStats' = [siStats EXCEPT !.moved = @ + 1]
                    /\ siSrc' = siSrc \ {e}
                    /\ siTgt' = [dirs |-> siTgt.dirs \cup {bucketDir},
                                 files |-> {x \in siTgt.files :
                                               ~(x.dir = bucketDir /\ x.name = target)}
                                    \cup {[dir |-> bucketDir, name |-> target,
                                           content |-> e.content]}]
                    /\ UNCHANGED siLog
    /\ UNCHANGED <<prog, siBinSize, siRecursive, siPc, siFiles, siSizes, siBins,
                   siSummary, restSi>>

\* lines 199-212: the empty folders are removed, the SUMMARY line is written
SiFinish ==
    /\ prog = "sortImagesByResolution"
    /\ siPc = "sorting" /\ siTodo = {}
    /\ \E fail \in {x \in SUBSET (siTgt.dirs \ {<<>>}) : Cardinality(x) <= 1} :
         LET r == removeEmptyDirs(siTgt, fail)
         IN /\ siTgt' = r.tree
            /\ siSummary' = <<[total |-> Cardinality(siFiles), moved |-> siStats.moved,
                               removedDirs |-> r.removed, errors |-> siStats.errors]>>
    /\ siPc' = "done"
    /\ UNCHANGED <<prog, siSrc, siBinSize, siRecursive, siFiles, siTodo, siSizes,
                   siBins, siStats, siLog, restSi>>

NextSort == SiStart \/ SiReadSize \/ SiBuildBins \/ SiSort \/ SiFinish

SpecSort == InitSort /\ [][NextSort]_vars

(***************************************************************************)
(* SpecSetup: main() of each pass from its first statement to the start of *)
(* its loop.  setupOf gives the statements that touch the filesystem, in   *)
(* the order of the source: "is_dir" is the test of --source, every other  *)
(* entry is a directory or log file the statement creates.                 *)
(***************************************************************************)
Scripts ==
    {"cleanRecoveredFiles", "filterBlackImages", "dedupeImages", "dedupeVideos",
     "sortImagesByResolution", "sortVideosByDuration", "recoveryPipeline"}

\* recoveryRoot = targetRoot.parent if targetRoot.parent.is_dir() else targetRoot
stepLogAt(parentIsDir, name) == IF parentIsDir THEN "../" \o name ELSE "target/" \o name

\* sortImagesByResolution making its target before it looks at the source
MutSetupOf(script, parentIsDir) ==
    CASE script = "cleanRecoveredFiles" ->
            <<"is_dir", "target/", "target/cleanup_progress.log",
              "target/Images/", "target/Videos/", "target/Other/">>
      [] script = "filterBlackImages" ->
            <<"is_dir", "source/BlackImages/", "source/filterBlackImages.log">>
      [] script = "dedupeImages" ->
            <<"is_dir", "source/Duplicates/", "source/dedupeImages.log">>
      [] script = "dedupeVideos" ->
            <<"is_dir", "source/dedupeVideos.log">>
      [] script = "sortImagesByResolution" ->
            <<"target/", "is_dir", stepLogAt(parentIsDir, "sortImagesByResolution.log")>>
      [] script = "sortVideosByDuration" ->
            <<"is_dir", "target/", stepLogAt(parentIsDir, "sortVideosByDuration.log")>>
      [] script = "recoveryPipeline" ->
            <<"is_dir">>

setupOf(script, parentIsDir) ==
    CASE script = "cleanRecoveredFiles" ->
            <<"is_dir", "target/", "target/cleanup_progress.log",
              "target/Images/", "target/Videos/", "target/Other/">>
      [] script = "filterBlackImages" ->
            <<"is_dir", "source/BlackImages/", "source/filterBlackImages.log">>
      [] script = "dedupeImages" ->
            <<"is_dir", "source/Duplicates/", "source/dedupeImages.log">>
      [] script = "dedupeVideos" ->
            <<"is_dir", "source/dedupeVideos.log">>
      [] script = "sortImagesByResolution" ->
            <<"is_dir", "target/", stepLogAt(parentIsDir, "sortImagesByResolution.log")>>
      [] script = "sortVideosByDuration" ->
            <<"is_dir", "target/", stepLogAt(parentIsDir, "sortVideosByDuration.log")>>
      [] script = "recoveryPipeline" ->
            <<"is_dir">>

RECURSIVE runSetup(_, _, _, _)
\* the statements from the i-th on: "if not src.is_dir(): raise SystemExit(msg)"
\* ends the process with status 1, anything else is created
runSetup(steps, source, i, made) ==
    IF i > Len(steps) THEN [exit |-> <<>>, made |-> made]
    ELSE IF steps[i] = "is_dir"
         THEN (IF source = "dir" THEN runSetup(steps, source, i + 1, made)
               ELSE [exit |-> <<1>>, made |-> made])
         ELSE runSetup(steps, source, i + 1, made \cup {steps[i]})

InitSetup ==
    /\ prog = "setup"
    /\ suPass \in Scripts
    /\ suSource \in {"dir", "file", "missing"}
    /\ suDry \in BOOLEAN
    /\ suParent \in BOOLEAN
    /\ suPc = "start" /\ suMade = {} /\ suExit = <<>>
    /\ OnlySu

\* main() up to its loop
SuSetup ==
    /\ prog = "setup"
    /\ suPc = "start"
    /\ LET r == runSetup(setupOf(suPass, suParent), suSource, 1, {})
       IN /\ suMade' = r.made
          /\ suExit' = r.exit
          /\ suPc' = IF r.exit = <<>> THEN "loop" ELSE "exited"
    /\ UNCHANGED <<prog, suPass, suSource, suDry, suParent, restSu>>

\* the loop and the summary, of which only the end is kept here; a real
\* run of cleanRecoveredFiles leaves cleanup_log.txt
SuRun ==
    /\ prog = "setup"
    /\ suPc = "loop"
    /\ suPc' = "exited"
    /\ suExit' = <<0>>
    /\ suMade' = IF suPass = "cleanRecoveredFiles" /\ ~suDry
                 THEN suMade \cup {"target/cleanup_log.txt"} ELSE suMade
    /\ UNCHANGED <<prog, suPass, suSource, suDry, suParent, restSu>>

NextSetup == SuSetup \/ SuRun

SpecSetup == InitSetup /\ [][NextSetup]_vars

(***************************************************************************)
(* SpecBins: buildWidthBins and findBin applied to drawn inputs            *)
(***************************************************************************)
WidthLists == UNION {[1..n -> 0..MaxWidth] : n \in 1..MaxWidths}

InitBins ==
    /\ prog = "bins"
    /\ widths \in WidthLists
    /\ binSize \in 1..MaxBinSize
    /\ bins = <<>>
    /\ built = FALSE
    /\ found = <<>>
    /\ OnlyBins

\* bins = buildWidthBins(widths, args.width_bin)
BuildBins ==
    /\ prog = "bins"
    /\ ~built
    /\ bins' = buildWidthBins(widths, binSize)
    /\ built' = TRUE
    /\ UNCHANGED <<prog, widths, binSize, found, restBins>>

\* low, high = findBin(w, bins) for one observed width
FindBin ==
    /\ prog = "bins"
    /\ built /\ bins # <<>>
    /\ \E i \in 1..Len(widths) :
          found' = <<[width |-> widths[i]] @@ findBin(widths[i], bins)>>
    /\ UNCHANGED <<prog, widths, binSize, bins, built, restBins>>

NextBins == BuildBins \/ FindBin

SpecBins == InitBins /\ [][NextBins]_vars

(***************************************************************************)
(* SpecBlack: the two analyseImage functions applied to drawn images       *)
(***************************************************************************)
Levels == 0..MaxLevel

Images ==
    [verifyOk : BOOLEAN, statOk : BOOLEAN,
     mean : [Channels -> Levels], stddev : [Channels -> Levels]]

InitBlack ==
    /\ prog = "black"
    /\ img \in Images
    /\ thresholds \in [mean : Levels, std : Levels]
    /\ analysed = <<>>
    /\ OnlyBlack

AnalyseClean ==
    /\ prog = "black"
    /\ analysed' = <<[by |-> "cleanRecoveredFiles",
                      result |-> analyseImage(img, thresholds.mean, thresholds.std)]>>
    /\ UNCHANGED <<prog, img, thresholds, restBlack>>

AnalyseFilter ==
    /\ prog = "black"
    /\ analysed' = <<[by |-> "filterBlackImages",
                      result |-> filterAnalyseImage(img, thresholds.mean, thresholds.std)]>>
    /\ UNCHANGED <<prog, img, thresholds, restBlack>>

NextBlack == AnalyseClean \/ AnalyseFilter

SpecBlack == InitBlack /\ [][NextBlack]_vars

(***************************************************************************)
(* SpecMove: the helpers applied, one call after another, to source files  *)
(* of other directories and one destination directory that already holds   *)
(* some files.  Old files have content 0, the k-th file moved has content k*)
(***************************************************************************)
MoveStems == {<<"a">>, <<"a", "_", "1">>}
MoveExts  == {".jpg", ".JPG"}
MoveSources == {Name(s, x) : s \in MoveStems, x \in MoveExts}
MoveOld ==
    {Name(<<"a">>, ".jpg"), Name(<<"a", "_", "1">>, ".jpg"),
     Name(<<"a", "_", "2">>, ".jpg"), Name(<<"a">>, ".JPG")}

InitMove ==
    /\ prog = "move"
    /\ mMade \in BOOLEAN
    /\ \E old \in SUBSET MoveOld :
          mDir = IF mMade THEN {[name |-> n, content |-> 0] : n \in old} ELSE {}
    /\ mLog = <<>>
    /\ OnlyMove
\* a call for a source file of another directory: the k-th call moves content k.
\* The move helpers start with mkdir(parents=True, exist_ok=True); copyFile
\* is called for a folder that ensureTargetSubdirs made.
called(helper, src, target) ==
    /\ mMade' = TRUE
    /\ mDir' = writeEntry(mDir, target, Len(mLog) + 1)
    /\ mLog' = Append(mLog, [helper |-> helper, src |-> src, within |-> FALSE,
                             content |-> Len(mLog) + 1, target |-> target,
                             existed |-> mMade])
    /\ UNCHANGED <<prog, restMove>>

DoSafeMove ==
    /\ prog = "move" /\ Len(mLog) < MaxMoves
    /\ \E src \in MoveSources : called("safeMove", src, safeMoveTarget(mDir, src))

\* dedupeVideos scans VideoDuplicates too: safeMove of a file that already
\* lies in dstDir renames it inside dstDir
DoSafeMoveWithin ==
    /\ prog = "move" /\ Len(mLog) < MaxMoves
    /\ \E e \in mDir :
          LET target == safeMoveTarget(mDir, e.name)
          IN /\ mDir' = writeEntry(mDir \ {e}, target, e.content)
             /\ UNCHANGED mMade
             /\ mLog' = Append(mLog, [helper |-> "safeMove", src |-> e.name,
                                      within |-> TRUE, content |-> e.content,
                                      target |-> target, existed |-> mMade])
    /\ UNCHANGED <<prog, restMove>>

DoSafeRename ==
    /\ prog = "move" /\ Len(mLog) < MaxMoves
    /\ \E src \in MoveSources : called("safeRename", src, safeRenameTarget(mDir, src))

DoCopyFile ==
    /\ prog = "move" /\ Len(mLog) < MaxMoves
    /\ mMade
    /\ \E src \in MoveSources, index \in 1..MaxIndex :
          called("copyFile", src, copyFileTarget(mDir, src, index))

DoInlineMove ==
    /\ prog = "move" /\ Len(mLog) < MaxMoves
    /\ \E src \in MoveSources : called("inline", src, inlineTarget(mDir, src))

NextMove == DoSafeMove \/ DoSafeMoveWithin \/ DoSafeRename \/ DoCopyFile \/ DoInlineMove

SpecMove == InitMove /\ [][NextMove]_vars

(***************************************************************************)
(* SpecImages: runs of dedupeImages over a drawn source tree               *)
(***************************************************************************)
Hashes == 0..MaxHash

\* what a file is to Image.open + imagehash.phash: it raises, or gives a hash
ImageContents ==
    {[ok |-> TRUE, hash |-> h] : h \in Hashes} \cup {[ok |-> FALSE, hash |-> 0]}

DiDirs  == {<<>>, <<"sub">>, <<"Duplicates">>}
DiNames == {Name(<<"a">>, ".jpg"), Name(<<"b">>, ".JPG")}
DiPaths == {[dir |-> d, name |-> n] : d \in DiDirs, n \in DiNames}

DiTrees ==
    UNION {{{[dir |-> p.dir, name |-> p.name, content |-> c[p]] : p \in ps} :
               c \in [ps -> ImageContents]} :
           ps \in {x \in SUBSET DiPaths : Cardinality(x) <= MaxImages}}

\* dedupeImages runs by itself or as the second child of recoveryPipeline
inDedupeImages ==
    prog = "dedupeImages" \/ (prog = "recoveryPipeline" /\ plPc = "step2")

InitImages ==
    /\ prog = "dedupeImages"
    /\ diTree \in DiTrees
    /\ diPc = "idle"
    /\ diMade = {}
    /\ images = {}
    /\ seen = <<>>
    /\ diStats = [total |-> 0, kept |-> 0, moved |-> 0, errors |-> 0]
    /\ diLog = <<>>
    /\ OnlyDi

\* lines 43-63: create Duplicates/, open the log, collect the images
DiStart ==
    /\ inDedupeImages
    /\ diPc = "idle"
    /\ diPc' = "running"
    /\ diMade' = diMade \cup {"Duplicates/", "dedupeImages.log"}
    /\ images' = {PathOf(e) : e \in {x \in diTree :
                      commonIsImage(x.name) /\ ~isRelativeTo(PathOf(x), "Duplicates")}}
    /\ seen' = <<>>
    /\ diStats' = [total |-> Cardinality(images'), kept |-> 0, moved |-> 0, errors |-> 0]
    /\ diLog' = <<>>
    /\ UNCHANGED <<prog, diTree, restDi>>

\* lines 65-103: one iteration of the loop, for the next collected path
DiCheck ==
    /\ inDedupeImages
    /\ diPc = "running"
    /\ \E imgPath \in images :
         LET e == CHOOSE x \in diTree : PathOf(x) = imgPath
             phash == e.content.hash
             m == matched(seen, phash)
             tdir == <<"Duplicates">> \o imgPath.dir
             target == inlineTarget(listing(diTree, tdir), imgPath.name)
         IN /\ images' = images \ {imgPath}
            /\ \/ \* phash raises: counted, next file
                  /\ ~e.content.ok
                  /\ diStats' = [diStats EXCEPT !.errors = @ + 1]
                  /\ diLog' = Append(diLog, [action |-> "ERROR", path |-> imgPath, hash |-> 0])
                  /\ UNCHANGED <<diTree, seen, diPc>>
               \/ \* no kept image within the threshold: keep in place
                  /\ e.content.ok /\ m = 0
                  /\ seen' = setSeen(seen, phash, imgPath)
                  /\ diStats' = [diStats EXCEPT !.kept = @ + 1]
                  /\ diLog' = Append(diLog, [action |-> "KEEP", path |-> imgPath, hash |-> phash])
                  /\ UNCHANGED <<diTree, diPc>>
               \/ \* a duplicate: renamed below Duplicates/
                  /\ e.content.ok /\ m # 0
                  /\ diTree' = renameEntry(diTree, e, tdir, target)
                  /\ diStats' = [diStats EXCEPT !.moved = @ + 1]
                  /\ diLog' = Append(diLog, [action |-> "MOVE", path |-> imgPath,
                                             hash |-> phash, target |-> [dir |-> tdir, name |-> target],
                                             dupOf |-> seen[m].path])
                  /\ UNCHANGED <<seen, diPc>>
               \/ \* a duplicate whose rename raises: nothing catches it
                  /\ e.content.ok /\ m # 0
                  /\ diPc' = "aborted"
                  /\ diLog' = Append(diLog, [action |-> "RAISE", path |-> imgPath, hash |-> phash])
                  /\ UNCHANGED <<diTree, seen, diStats>>
    /\ UNCHANGED <<prog, diMade, restDi>>

\* lines 105-114: the SUMMARY line and the closing print
DiFinish ==
    /\ inDedupeImages
    /\ diPc = "running" /\ images = {}
    /\ diPc' = "done"
    /\ diLog' = Append(diLog, [action |-> "SUMMARY", stats |-> diStats])
    /\ UNCHANGED <<prog, diTree, diMade, images, seen, diStats, restDi>>

NextImages == DiStart \/ DiCheck \/ DiFinish

SpecImages == InitImages /\ [][NextImages]_vars

(***************************************************************************)
(* SpecClean: runs of cleanRecoveredFiles (dry and real) over a drawn      *)
(* source, into a target that starts empty; files may be added to the      *)
(* source between runs.                                                    *)
(***************************************************************************)
Bright == [c \in Channels |-> 9]
Dark   == [c \in Channels |-> 0]
GoodImage  == [verifyOk |-> TRUE, statOk |-> TRUE, mean |-> Bright, stddev |-> Bright]
BlackImage == [verifyOk |-> TRUE, statOk |-> TRUE, mean |-> Dark, stddev |-> Dark]
BadImage   == [verifyOk |-> FALSE, statOk |-> FALSE, mean |-> Dark, stddev |-> Dark]

\* file contents: the bytes, their length, and what PIL makes of them
ContentX     == [bytes |-> "x", size |-> 20000, image |-> GoodImage]
ContentY     == [bytes |-> "y", size |-> 20000, image |-> GoodImage]
ContentBlack == [bytes |-> "k", size |-> 20000, image |-> BlackImage]
ContentJunk  == [bytes |-> "j", size |-> 100, image |-> BadImage]
ContentEmpty == [bytes |-> "", size |-> 0, image |-> BadImage]

CrStems == {<<"a">>, <<"a", "_", "b">>}

\* the files a source may hold
CrCandidates ==
    {[recup |-> r, name |-> Name(st, ".jpg"), content |-> c] :
        r \in 1..NumRecup, st \in CrStems, c \in {ContentX, ContentY}}
    \cup {[recup |-> 1, name |-> Name(<<"a">>, ".jpg"), content |-> c] :
              c \in {ContentBlack, ContentJunk, ContentEmpty}}
    \cup {[recup |-> 1, name |-> Name(<<"a">>, ".mp4"), content |-> c] :
              c \in {ContentX, ContentJunk}}
    \cup {[recup |-> 1, name |-> Name(<<"a">>, ".txt"), content |-> ContentY]}

SrcPath(f) == <<f.recup, f.name>>

IsSource(fs) ==
    /\ Cardinality(fs) <= MaxSrc
    /\ \A f, g \in fs : SrcPath(f) = SrcPath(g) => f = g

InitClean ==
    /\ prog = "cleanRecoveredFiles"
    /\ srcTree \in {fs \in SUBSET CrCandidates : IsSource(fs)}
    /\ tgtFiles = {} /\ tgtMade = {} /\ crPc = "idle"
    /\ dryRun = FALSE /\ unvisited = {} /\ run = NoRun
    /\ crRuns = 0 /\ order = <<>> /\ crFaults = {}
    /\ startedAt = [files |-> {}, made |-> {}, repeat |-> FALSE]
    /\ lastDry = <<>> /\ lastRealOk = FALSE
    /\ OnlyCr

\* a file appears in the source between two runs
CrAddFile ==
    /\ prog = "cleanRecoveredFiles"
    /\ crPc # "running" /\ crRuns < MaxRuns
    /\ \E f \in CrCandidates \ srcTree :
          /\ IsSource(srcTree \cup {f})
          /\ srcTree' = srcTree \cup {f}
    /\ crPc' = "idle"
    /\ lastDry' = <<>>
    /\ lastRealOk' = FALSE
    /\ UNCHANGED <<prog, tgtFiles, tgtMade, dryRun, unvisited, run, crRuns,
                   order, crFaults, startedAt, restCr>>

\* main lines 344-355 and processFiles lines 195-224: the target and its
\* three folders are created, the progress log is opened, the locals are
\* initialised
CrStart ==
    /\ prog = "cleanRecoveredFiles"
    /\ crPc # "running" /\ crRuns < MaxRuns
    /\ \E dry \in BOOLEAN : dryRun' = dry
    /\ crPc' = "running"
    /\ crRuns' = crRuns + 1
    /\ tgtMade' = tgtMade \cup {"target/", "cleanup_progress.log",
                                "Images/", "Videos/", "Other/"}
    /\ run' = [stats |-> ZeroStats, hashesSeen |-> {}, index |-> 1]
    /\ unvisited' = srcTree
    /\ order' = <<>>
    /\ crFaults' = {}
    /\ startedAt' = [files |-> tgtFiles, made |-> tgtMade, repeat |-> lastRealOk]
    \* a dry run is compared with the real run that directly follows it
    /\ lastDry' = IF dryRun' \/ (crRuns > 0 /\ ~dryRun) THEN <<>> ELSE lastDry
    /\ UNCHANGED <<prog, srcTree, tgtFiles, lastRealOk, restCr>>

\* the folders are walked in numeric order, each in the order rglob yields
nextFiles == {f \in unvisited : \A g \in unvisited : f.recup <= g.recup}

\* lines 226-312: one iteration of the loop
CrProcess ==
    /\ prog = "cleanRecoveredFiles"
    /\ crPc = "running"
    /\ \E f \in nextFiles, io \in {"none", "stat", "hash", "copy"} :
         LET r == processFile(f, run @@ [files |-> tgtFiles], dryRun, io)
         IN /\ io # "none" => r.raised = io
            /\ run' = [stats |-> r.stats, hashesSeen |-> r.hashesSeen, index |-> r.index]
            /\ tgtFiles' = r.files
            /\ unvisited' = unvisited \ {f}
            /\ order' = Append(order, f)
            /\ crFaults' = IF r.raised = "none" THEN crFaults ELSE crFaults \cup {r.raised}
            /\ crPc' = IF r.left THEN "aborted" ELSE "running"
            /\ lastRealOk' = IF dryRun THEN lastRealOk ELSE FALSE
    /\ UNCHANGED <<prog, srcTree, tgtMade, dryRun, crRuns, startedAt, lastDry, restCr>>

\* lines 314-316 and main lines 367-375: the summary, and cleanup_log.txt
\* after a real run
CrFinish ==
    /\ prog = "cleanRecoveredFiles"
    /\ crPc = "running" /\ unvisited = {}
    /\ crPc' = "done"
    /\ tgtMade' = IF dryRun THEN tgtMade ELSE tgtMade \cup {"cleanup_log.txt"}
    /\ lastDry' = IF dryRun /\ crFaults = {}
                   THEN <<[order |-> order, stats |-> run.stats]>>
                   ELSE lastDry
    /\ lastRealOk' = IF dryRun THEN lastRealOk ELSE (crFaults = {})
    /\ UNCHANGED <<prog, srcTree, tgtFiles, dryRun, unvisited, run, crRuns, order,
                   crFaults, startedAt, restCr>>

NextClean == CrAddFile \/ CrStart \/ CrProcess \/ CrFinish

SpecClean == InitClean /\ [][NextClean]_vars

(***************************************************************************)
(* SpecVideos: runs of dedupeVideos (dry and real) over a drawn folder     *)
(***************************************************************************)
DvDirs  == {<<>>, <<"sub">>, <<"VideoDuplicates">>}
DvNames == {Name(<<"a">>, ".mp4"), Name(<<"b">>, ".MP4")}
DvPaths == {[dir |-> d, name |-> n] : d \in DvDirs, n \in DvNames}
DvContents == {[bytes |-> "x"], [bytes |-> "y"]}

DvTrees ==
    UNION {{{[dir |-> p.dir, name |-> p.name, content |-> c[p]] : p \in ps} :
               c \in [ps -> DvContents]} :
           ps \in {x \in SUBSET DvPaths : Cardinality(x) <= MaxVideos}}

InitVideos ==
    /\ prog = "dedupeVideos"
    /\ dvTree \in DvTrees
    /\ dvPc = "idle" /\ dvDry = FALSE /\ dvMade = {} /\ videos = {}
    /\ dvSeen = {} /\ dvStats = [total |-> 0, kept |-> 0, moved |-> 0, errors |-> 0]
    /\ dvRuns = 0 /\ dvPrev = <<>>
    /\ OnlyDv

\* lines 67-84: open the log inside the source folder, collect the videos
DvStart ==
    /\ prog = "dedupeVideos"
    /\ dvPc # "running" /\ dvRuns < MaxRuns
    /\ \E dry \in BOOLEAN : dvDry' = dry
    /\ dvPc' = "running"
    /\ dvRuns' = dvRuns + 1
    /\ dvPrev' = IF dvRuns = 0 THEN <<>>
                 ELSE <<[dry |-> dvDry, pc |-> dvPc, errors |-> dvStats.errors]>>
    /\ dvMade' = dvMade \cup {"dedupeVideos.log"}
    /\ videos' = {PathOf(e) : e \in {x \in dvTree : commonIsVideo(x.name)}}
    /\ dvSeen' = {}
    /\ dvStats' = [total |-> Cardinality(videos'), kept |-> 0, moved |-> 0, errors |-> 0]
    /\ UNCHANGED <<prog, dvTree, restDv>>

\* lines 86-119: one iteration of the loop, for the next collected path
DvCheck ==
    /\ prog = "dedupeVideos"
    /\ dvPc = "running"
    /\ \E v \in videos :
         LET e == CHOOSE x \in dvTree : PathOf(x) = v
             h == dvHashFile(e.content)
             dupesDir == <<"VideoDuplicates">>
             dst == safeMoveTarget(listing(dvTree, dupesDir), v.name)
         IN /\ videos' = videos \ {v}
            /\ \/ \* hashFile raises: counted, next file
                  /\ dvStats' = [dvStats EXCEPT !.errors = @ + 1]
                  /\ UNCHANGED <<dvTree, dvSeen, dvMade>>
               \/ \* first file with this digest: kept in place
                  /\ ~\E x \in dvSeen : x.hash = h
                  /\ dvSeen' = dvSeen \cup {[hash |-> h, path |-> v]}
                  /\ dvStats' = [dvStats EXCEPT !.kept = @ + 1]
                  /\ UNCHANGED <<dvTree, dvMade>>
               \/ \* duplicate, dry run: WOULD_MOVE
                  /\ \E x \in dvSeen : x.hash = h
                  /\ dvDry
                  /\ dvStats' = [dvStats EXCEPT !.moved = @ + 1]
                  /\ UNCHANGED <<dvTree, dvSeen, dvMade>>
               \/ \* duplicate: safeMove into VideoDuplicates/
                  /\ \E x \in dvSeen : x.hash = h
                  /\ ~dvDry
                  /\ dvMade' = dvMade \cup {"VideoDuplicates/"}
                  /\ dvTree' = renameEntry(dvTree, e, dupesDir, dst)
                  /\ dvStats' = [dvStats EXCEPT !.moved = @ + 1]
                  /\ UNCHANGED dvSeen
               \/ \* duplicate, and the rename in safeMove raises: counted
                  /\ \E x \in dvSeen : x.hash = h
                  /\ ~dvDry
                  /\ dvMade' = dvMade \cup {"VideoDuplicates/"}
                  /\ dvStats' = [dvStats EXCEPT !.errors = @ + 1]
                  /\ UNCHANGED <<dvTree, dvSeen>>
    /\ UNCHANGED <<prog, dvPc, dvDry, dvRuns, dvPrev, restDv>>

\* lines 121-129: the SUMMARY line
DvFinish ==
    /\ prog = "dedupeVideos"
    /\ dvPc = "running" /\ videos = {}
    /\ dvPc' = "done"
    /\ UNCHANGED <<prog, dvTree, dvDry, dvMade, videos, dvSeen, dvStats, dvRuns,
                   dvPrev, restDv>>

NextVideos == DvStart \/ DvCheck \/ DvFinish

SpecVideos == InitVideos /\ [][NextVideos]_vars

(***************************************************************************)
(* SpecPasses: a behaviour runs one of the three passes                    *)
(***************************************************************************)
InitPasses == InitClean \/ InitImages \/ InitVideos

NextPasses == NextClean \/ NextImages \/ NextVideos

SpecPasses == InitPasses /\ [][NextPasses]_vars

(***************************************************************************)
(* SpecPipeline: recoveryPipeline over a drawn source.  A file's content   *)
(* is [ok, hash, image]: what imagehash and what PIL's verify/statistics   *)
(* make of it.                                                             *)
(***************************************************************************)
BLACK_MEAN == 2
BLACK_STD == 3

PlContents ==
    {c @@ [image |-> i] : c \in ImageContents, i \in {GoodImage, BlackImage, BadImage}}
PlPaths == {[dir |-> d, name |-> n] : d \in {<<>>, <<"sub">>}, n \in DiNames}
PlTrees ==
    UNION {{{[dir |-> p.dir, name |-> p.name, content |-> c[p]] : p \in ps} :
               c \in [ps -> PlContents]} :
           ps \in {x \in SUBSET PlPaths : Cardinality(x) <= MaxPipeImages}}

\* subprocess.check_call on a status it does not accept
MutRunCmd(status) == "returned"

\* run(cmd): subprocess.check_call returns on status 0 and raises
\* CalledProcessError on any other
runCmd(status) == IF status = 0 THEN "returned" ELSE "raised"

InitPipeline ==
    /\ prog = "recoveryPipeline"
    /\ plSource \in {"dir", "missing"}
    /\ plPc = "idle" /\ plStarted = <<>>
    /\ fbPc = "idle" /\ fbMade = {} /\ fbTodo = {}
    /\ fbStats = [total |-> 0, moved |-> 0, kept |-> 0]
    /\ diTree \in (IF plSource = "dir" THEN PlTrees ELSE {{}})
    /\ diPc = "idle" /\ diMade = {} /\ images = {} /\ seen = <<>>
    /\ diStats = [total |-> 0, kept |-> 0, moved |-> 0, errors |-> 0]
    /\ diLog = <<>>
    /\ OnlyPl

\* lines 33-45: the source is looked at, then step 1 is handed to run()
PlStart ==
    /\ prog = "recoveryPipeline"
    /\ plPc = "idle"
    /\ IF plSource = "dir"
       THEN plPc' = "step1" /\ plStarted' = <<"filterBlackImages">>
       ELSE plPc' = "failed" /\ UNCHANGED plStarted
    /\ UNCHANGED <<prog, plSource, fbPc, fbMade, fbTodo, fbStats, varsDi, restPl>>

\* filterBlackImages lines 65-92: BlackImages/ and the log are made, the
\* images outside BlackImages/ and Duplicates/ are collected
FbStart ==
    /\ prog = "recoveryPipeline" /\ plPc = "step1"
    /\ fbPc = "idle"
    /\ fbPc' = "running"
    /\ fbMade' = {"BlackImages/", "filterBlackImages.log"}
    /\ fbTodo' = {PathOf(e) : e \in {x \in diTree :
                      /\ commonIsImage(x.name)
                      /\ ~isRelativeTo(PathOf(x), "BlackImages")
                      /\ ~isRelativeTo(PathOf(x), "Duplicates")}}
    /\ fbStats' = [total |-> Cardinality(fbTodo'), moved |-> 0, kept |-> 0]
    /\ UNCHANGED <<prog, plSource, plPc, plStarted, varsDi, restPl>>

\* filterBlackImages lines 94-117 for the next image; raises tells whether
\* the rename of line 113, which nothing catches, raises
FbCheck ==
    /\ prog = "recoveryPipeline" /\ plPc = "step1"
    /\ fbPc = "running"
    /\ \E imgPath \in fbTodo, raises \in BOOLEAN :
         LET e == CHOOSE x \in diTree : PathOf(x) = imgPath
             a == filterAnalyseImage(e.content.image, BLACK_MEAN, BLACK_STD)
             tdir == <<"BlackImages">> \o imgPath.dir
             target == inlineTarget(listing(diTree, tdir), imgPath.name)
         IN /\ fbTodo' = fbTodo \ {imgPath}
            /\ IF a[1] /\ ~a[2]
               THEN /\ ~raises
                    /\ fbStats' = [fbStats EXCEPT !.kept = @ + 1]
                    /\ UNCHANGED <<diTree, fbPc>>
               ELSE IF raises
               THEN /\ fbPc' = "aborted"
                    /\ UNCHANGED <<diTree, fbStats>>
               ELSE /\ diTree' = renameEntry(diTree, e, tdir, target)
                    /\ fbStats' = [fbStats EXCEPT !.moved = @ + 1]
                    /\ UNCHANGED fbPc
    /\ UNCHANGED <<prog, plSource, plPc, plStarted, fbMade,
                   diPc, diMade, images, seen, diStats, diLog, restPl>>

\* filterBlackImages lines 119-124: the SUMMARY line
FbFinish ==
    /\ prog = "recoveryPipeline" /\ plPc = "step1"
    /\ fbPc = "running" /\ fbTodo = {}
    /\ fbPc' = "done"
    /\ UNCHANGED <<prog, plSource, plPc, plStarted, fbMade, fbTodo, fbStats,
                   varsDi, restPl>>

\* the exit status of a child: 0 after its summary, 1 after an uncaught
\* exception, 2 when python3 could not open the script
exitStatus(pc) == CASE pc = "done" -> 0 [] pc = "aborted" -> 1 [] OTHER -> 2

\* lines 45-50: run() comes back from step 1, step 2 is handed to run()
PlStep1Exit ==
    /\ prog = "recoveryPipeline" /\ plPc = "step1"
    /\ fbPc \in {"idle", "done", "aborted"}
    /\ IF runCmd(exitStatus(fbPc)) = "returned"
       THEN plPc' = "step2" /\ plStarted' = Append(plStarted, "dedupeImages")
       ELSE plPc' = "failed" /\ UNCHANGED plStarted
    /\ UNCHANGED <<prog, plSource, fbPc, fbMade, fbTodo, fbStats, varsDi, restPl>>

\* lines 50-53: run() comes back from step 2
PlStep2Exit ==
    /\ prog = "recoveryPipeline" /\ plPc = "step2"
    /\ diPc \in {"idle", "done", "aborted"}
    /\ plPc' = IF runCmd(exitStatus(diPc)) = "returned" THEN "done" ELSE "failed"
    /\ UNCHANGED <<prog, plSource, plStarted, fbPc, fbMade, fbTodo, fbStats,
                   varsDi, restPl>>

NextPipeline ==
    \/ PlStart \/ FbStart \/ FbCheck \/ FbFinish \/ PlStep1Exit
    \/ DiStart \/ DiCheck \/ DiFinish \/ PlStep2Exit

SpecPipeline == InitPipeline /\ [][NextPipeline]_vars

(***************************************************************************)
(* SpecProgress: recoveryCommon.printProgress applied to one call.  The    *)
(* elapsed time is a whole number of seconds; the remaining time is the    *)
(* fraction num/den, so that a remaining time between 0 and 1 second is    *)
(* positive, as it is for the float the code computes.                     *)
(***************************************************************************)
\* f"{n:02d}"
pad2(n) == LET d == Str(n) IN [i \in 1..(2 - Len(d)) |-> "0"] \o d

\* the test seconds < 0 in place of seconds <= 0
MutFormatEta(num, den) ==
    IF num < 0 THEN <<"-", "-", ":", "-", "-", ":", "-", "-">>
    ELSE LET seconds == num \div den
             h == seconds \div 3600
             m == (seconds % 3600) \div 60
             s == seconds % 60
         IN IF h > 99 THEN <<"9", "9", ":", "5", "9", ":", "5", "9">>
            ELSE pad2(h) \o <<":">> \o pad2(m) \o <<":">> \o pad2(s)

\* formatEta(seconds) for seconds = num/den, den > 0 (never NaN)
formatEta(num, den) ==
    IF num <= 0 THEN <<"-", "-", ":", "-", "-", ":", "-", "-">>
    ELSE LET seconds == num \div den
             h == seconds \div 3600
             m == (seconds % 3600) \div 60
             s == seconds % 60
         IN IF h > 99 THEN <<"9", "9", ":", "5", "9", ":", "5", "9">>
            ELSE pad2(h) \o <<":">> \o pad2(m) \o <<":">> \o pad2(s)

\* printProgress(done, total, startTime): what is printed; with total <= 0
\* the function returns before it prints
printProgress(done, total, elapsed) ==
    IF total <= 0 THEN [printed |-> FALSE, done |-> done, total |-> total, eta |-> <<>>]
    ELSE [printed |-> TRUE, done |-> done, total |-> total,
          eta |-> IF done > 0 THEN formatEta((total - done) * elapsed, done)
                  ELSE formatEta(0, 1)]

\* elapsed times drawn: none, seconds, an hour, more than 99 hours
PrElapsed == {0, 1, 7, 61, 3600, 360000}

\* the passes call with 0 <= done <= total = len(files)
InitProgress ==
    /\ prog = "printProgress"
    /\ prTotal \in (0 - 1)..MaxDone
    /\ prDone \in 0..MaxDone
    /\ prTotal > 0 => prDone <= prTotal
    /\ prElapsed \in PrElapsed
    /\ prOut = <<>>
    /\ OnlyPr

PrintProgress ==
    /\ prog = "printProgress"
    /\ prOut' = <<printProgress(prDone, prTotal, prElapsed)>>
    /\ UNCHANGED <<prog, prDone, prTotal, prElapsed, restPr>>

NextProgress == PrintProgress

SpecProgress == InitProgress /\ [][NextProgress]_vars

(***************************************************************************)
(* SpecRace: two instances of a pass, each inside one call of safeMove     *)
(* (safeRename has the same statements) for a source file of its own and   *)
(* the same destination directory.  A step is one system call: mkdir,      *)
(* exists, rename.  Old files have content 0, the file of process p has    *)
(* content p.                                                              *)
(***************************************************************************)
Procs == {1, 2}

RcNames == {Name(<<"a">>, ".jpg"), Name(<<"b">>, ".jpg")}
RcOld == {Name(<<"a">>, ".jpg"), Name(<<"a", "_", "1">>, ".jpg")}

InitRace ==
    /\ prog = "race"
    /\ rcMade \in BOOLEAN
    /\ \E old \in SUBSET RcOld :
          rcDir = IF rcMade THEN {[name |-> n, content |-> 0] : n \in old} ELSE {}
    /\ rcProc \in [Procs -> {[pc |-> "mkdir", name |-> n, target |-> n, i |-> 1] :
                                n \in RcNames}]
    /\ OnlyRc

\* line 37 and lines 38-39: dstDir.mkdir(parents=True, exist_ok=True);
\* target = dstDir / src.name; i = 1
RcMkdir(p) ==
    /\ prog = "race"
    /\ rcProc[p].pc = "mkdir"
    /\ rcMade' = TRUE
    /\ rcProc' = [rcProc EXCEPT ![p].pc = "exists"]
    /\ UNCHANGED <<prog, rcDir, restRc>>

\* lines 40-42: one test of the while loop, and its body when the test holds
RcExists(p) ==
    /\ prog = "race"
    /\ rcProc[p].pc = "exists"
    /\ rcProc' = IF exists(rcDir, rcProc[p].target)
                 THEN [rcProc EXCEPT ![p].target =
                                        suffixed(rcProc[p].name.stem, rcProc[p].i,
                                                 rcProc[p].name.ext),
                                     ![p].i = @ + 1]
                 ELSE [rcProc EXCEPT ![p].pc = "rename"]
    /\ UNCHANGED <<prog, rcMade, rcDir, restRc>>

\* lines 43-44: src.rename(target); return target
RcRename(p) ==
    /\ prog = "race"
    /\ rcProc[p].pc = "rename"
    /\ rcDir' = writeEntry(rcDir, rcProc[p].target, p)
    /\ rcProc' = [rcProc EXCEPT ![p].pc = "returned"]
    /\ UNCHANGED <<prog, rcMade, restRc>>

NextRace == \E p \in Procs : RcMkdir(p) \/ RcExists(p) \/ RcRename(p)

SpecRace == InitRace /\ [][NextRace]_vars

(***************************************************************************)
(* SpecBinLoop: buildWidthBins one statement at a time, for every value    *)
(* of --width-bin that type=int lets through (main hands args.width_bin    *)
(* to it unchecked).  Python's integers and lists do not overflow; to keep *)
(* the states finite the length of bins is counted modulo LenWrap and a    *)
(* low below -MaxBack is kept as -MaxBack, which the loop test             *)
(* low <= maxW, with maxW >= 0, cannot tell apart.                         *)
(***************************************************************************)
InitBinLoop ==
    /\ prog = "buildWidthBins"
    /\ blWidths \in WidthLists
    /\ blSize \in (0 - 1)..MaxBinSize
    /\ blPc = "start" /\ blLow = 0 /\ blLast = <<>> /\ blLen = 0
    /\ OnlyBl

\* lines 39-45: widths is not empty; maxW, bins = [], low = 0
BlStart ==
    /\ prog = "buildWidthBins"
    /\ blPc = "start"
    /\ blPc' = "loop"
    /\ blLow' = 0 /\ blLast' = <<>> /\ blLen' = 0
    /\ UNCHANGED <<prog, blWidths, blSize, restBl>>

\* lines 46-50: one test of the while loop, then its body or the return
BlStep ==
    /\ prog = "buildWidthBins"
    /\ blPc = "loop"
    /\ IF blLow <= MaxOf(blWidths)
       THEN LET high == blLow + (blSize - 1)
            IN /\ blLast' = <<<<blLow, high>>>>
               /\ blLen' = (blLen + 1) % LenWrap
               /\ blLow' = IF high + 1 < 0 - MaxBack THEN 0 - MaxBack ELSE high + 1
               /\ UNCHANGED blPc
       ELSE /\ blPc' = "returned"
            /\ UNCHANGED <<blLow, blLast, blLen>>
    /\ UNCHANGED <<prog, blWidths, blSize, restBl>>

NextBinLoop == BlStart \/ BlStep

\* the interpreter goes on executing the function
SpecBinLoop == InitBinLoop /\ [][NextBinLoop]_vars /\ WF_vars(NextBinLoop)

(***************************************************************************)
(* SpecCounts: a behaviour runs one of the four passes that keep outcome   *)
(* counters: cleanRecoveredFiles, dedupeImages, dedupeVideos, or the       *)
(* pipeline with filterBlackImages as its first step                       *)
(***************************************************************************)
InitCounts == InitPasses \/ InitPipeline

NextCounts == NextPasses \/ NextPipeline

SpecCounts == InitCounts /\ [][NextCounts]_vars

(***************************************************************************)
(* Statements about cleanRecoveredFiles                                    *)
(***************************************************************************)
Copied(st) == st.imagesCopied + st.videosCopied + st.othersCopied

\* the file gets past classification and validation
Passes(f) ==
    LET kind == classifyFile(f.name, f.content.size, minVideoSize)
        a == analyseImage(f.content.image, blackMean, blackStd)
    IN kind # "skip_tiny" /\ (kind = "image" => a[1] /\ ~a[2])

(***************************************************************************)
(* C1: a real run that repeats a complete, error-free real run on an       *)
(* unchanged source copies nothing: the three copied counters stay 0 and   *)
(* the files below Images/, Videos/, Other/ are those the run found.       *)
(***************************************************************************)
SecondRunCopiesNothing ==
    (crPc # "idle" /\ ~dryRun /\ startedAt.repeat) =>
        /\ run.stats.imagesCopied = 0
        /\ run.stats.videosCopied = 0
        /\ run.stats.othersCopied = 0
        /\ tgtFiles = startedAt.files

(***************************************************************************)
(* C2: after one error-free real run into an empty target, the number of   *)
(* files copied is the number of distinct digests among the source files   *)
(* that pass classification and validation, and duplicatesSkipped is the   *)
(* number of those files minus the number of distinct digests, whatever    *)
(* the order of enumeration.                                               *)
(***************************************************************************)
CopiesOnePerDigest ==
    (crPc = "done" /\ ~dryRun /\ startedAt.files = {} /\ crFaults = {}) =>
        LET passing == {f \in srcTree : Passes(f)}
            digests == {hashFile(f.content) : f \in passing}
        IN /\ Copied(run.stats) = Cardinality(digests)
           /\ Cardinality(tgtFiles) = Cardinality(digests)
           /\ run.stats.duplicatesSkipped = Cardinality(passing) - Cardinality(digests)

(***************************************************************************)
(* C3: while a run is going, hashesSeen holds the digest of every file     *)
(* that was below Images/, Videos/, Other/ when it started, and no two     *)
(* files below the target folders are byte-identical.                      *)
(***************************************************************************)
SeededFromDestination ==
    /\ crPc = "running" => seedExistingHashes(startedAt.files) \subseteq run.hashesSeen
    /\ \A e1, e2 \in tgtFiles : e1 # e2 => e1.content.bytes # e2.content.bytes

(***************************************************************************)
(* C8 as stated: no step of a --dry-run run of cleanRecoveredFiles or      *)
(* dedupeVideos creates, copies, moves, renames or deletes a file or a     *)
(* directory under the source or the destination.                          *)
(***************************************************************************)
CrRunStep == crPc = "running" \/ crPc' = "running"
DvRunStep == dvPc = "running" \/ dvPc' = "running"

DryRunChangesNothing ==
    [][ /\ (dryRun' /\ CrRunStep) =>
              srcTree' = srcTree /\ tgtFiles' = tgtFiles /\ tgtMade' = tgtMade
        /\ (dvDry' /\ DvRunStep) =>
              dvTree' = dvTree /\ dvMade' = dvMade ]_vars

(***************************************************************************)
(* C8 amended: no step of a --dry-run run copies, moves, renames or        *)
(* deletes a file; all it may create is the target folder with Images/,    *)
(* Videos/, Other/ and cleanup_progress.log (cleanRecoveredFiles) or       *)
(* dedupeVideos.log in the source folder (dedupeVideos).                   *)
(***************************************************************************)
DryRunKeepsFiles ==
    [][ /\ (dryRun' /\ CrRunStep) =>
              /\ srcTree' = srcTree /\ tgtFiles' = tgtFiles
              /\ tgtMade' \subseteq tgtMade \cup {"target/", "Images/", "Videos/",
                                                 "Other/", "cleanup_progress.log"}
        /\ (dvDry' /\ DvRunStep) =>
              dvTree' = dvTree /\ dvMade' \subseteq dvMade \cup {"dedupeVideos.log"} ]_vars

\* a finished dry run of cleanRecoveredFiles that counted a file as copied
\* and skipped a duplicate, with nothing below the target folders
DryRunWitness ==
    /\ crPc = "done" /\ dryRun
    /\ Copied(run.stats) >= 1 /\ run.stats.duplicatesSkipped >= 1
    /\ tgtFiles = {}

(***************************************************************************)
(* C9: a real run that follows a complete dry run from the same source and *)
(* destination state, visiting the files in the same order, reports the    *)
(* same tinySkipped, imageInvalid, imageBlack, duplicatesSkipped,          *)
(* imagesCopied, videosCopied and othersCopied as the dry run did.         *)
(***************************************************************************)
Reported ==
    {"tinySkipped", "imageInvalid", "imageBlack", "duplicatesSkipped",
     "imagesCopied", "videosCopied", "othersCopied"}

DryRunReportsRealRun ==
    (/\ crPc = "done" /\ ~dryRun /\ crFaults = {}
     /\ lastDry # <<>> /\ lastDry[1].order = order) =>
        \A k \in Reported : run.stats[k] = lastDry[1].stats[k]

(***************************************************************************)
(* C10: an I/O error on one file never aborts a pass: no run ends by an    *)
(* exception, and a run in which an error was raised still visits every    *)
(* file and ends with its summary.                                         *)
(***************************************************************************)
PerFileErrorsNeverAbort ==
    /\ crPc # "aborted"
    /\ diPc # "aborted"
    /\ (crFaults # {} /\ crPc # "running") => (crPc = "done" /\ unvisited = {})

(***************************************************************************)
(* C11: a file whose hashing fails is not counted as a duplicate: the step *)
(* in which hashFile first raises leaves duplicatesSkipped as it was.      *)
(***************************************************************************)
HashFailureNotDuplicate ==
    [][("hash" \notin crFaults /\ "hash" \in crFaults') =>
          run'.stats.duplicatesSkipped = run.stats.duplicatesSkipped]_vars

(***************************************************************************)
(* C19: classifyFile gives skip_tiny for every empty file; for a non-empty *)
(* file, image for an image suffix whatever the size, video or skip_tiny   *)
(* for a video suffix as the size is at least minVideoSize or below it,    *)
(* and other for any other suffix; suffixes are compared without case.     *)
(***************************************************************************)
AnyCaseImage == {".jpg", ".JPG", ".Png"}
AnyCaseVideo == {".mp4", ".MP4", ".Mov"}

SizeBasedRejection ==
    cfKind # <<>> =>
        /\ cfSize = 0 => cfKind[1] = "skip_tiny"
        /\ (cfSize > 0 /\ cfName.ext \in AnyCaseImage) => cfKind[1] = "image"
        /\ (cfSize > 0 /\ cfName.ext \in AnyCaseVideo) =>
               cfKind[1] = (IF cfSize >= cfMin THEN "video" ELSE "skip_tiny")
        /\ (cfSize > 0 /\ cfName.ext \notin AnyCaseImage \cup AnyCaseVideo) =>
               cfKind[1] = "other"

\* a video with an upper-case suffix and exactly minVideoSize bytes is a video
SizeWitness ==
    /\ cfKind = <<"video">>
    /\ cfName.ext = ".MP4"
    /\ cfSize = cfMin /\ cfSize > 0

(***************************************************************************)
(* C20: when removeEmptyDirs has returned and no rmdir failed, no empty    *)
(* directory is left below root; the files are the same; a directory was   *)
(* removed only if nothing but removed directories was below it; root is   *)
(* still there.  The count returned is the number of directories removed,  *)
(* whether or not an rmdir failed.                                         *)
(***************************************************************************)
EmptyDirsRemoved ==
    reAfter # <<>> =>
        LET t == reAfter[1].tree
            gone == reBefore.dirs \ t.dirs
        IN /\ reAfter[1].removed = Cardinality(gone)
           /\ t.dirs \subseteq reBefore.dirs
           /\ t.files = reBefore.files
           /\ <<>> \in t.dirs
           /\ \A d \in gone :
                  /\ \A f \in reBefore.files : ~isPrefix(d, f.dir)
                  /\ \A c \in reBefore.dirs : isPrefix(d, c) => c \in gone
           /\ reFail = {} => \A d \in t.dirs : d # <<>> => hasEntry(t, d)

\* a directory that held only an empty directory is gone, next to one kept
\* for the file in it
EmptyDirsWitness ==
    /\ reAfter # <<>> /\ reFail = {}
    /\ \E d \in reBefore.dirs :
          /\ Len(d) = 1 /\ hasEntry(reBefore, d)
          /\ d \notin reAfter[1].tree.dirs
    /\ \E d \in reAfter[1].tree.dirs : d # <<>>

(***************************************************************************)
(* C13: with ffprobe missing from PATH, sortVideosByDuration moves no      *)
(* video: the source and the target stay as they were when it started.     *)
(***************************************************************************)
MissingToolMovesNothing ==
    (~sdFfprobe /\ sdAtStart # <<>>) =>
        /\ sdStats.moved = 0
        /\ sdSrc = sdAtStart[1].src
        /\ sdTgt = sdAtStart[1].tgt

(***************************************************************************)
(* C14: the bucket of a video: {round(d)}_sec when ffprobe gave duration d,*)
(* corrupt when it failed.                                                 *)
(***************************************************************************)
CorruptDir == <<<<"corrupt">>>>
BucketOf(content) ==
    IF content.probe = <<>> THEN CorruptDir
    ELSE <<Str(pyRound(content.probe[1])) \o <<"_sec">>>>
InBucket(content) == \E x \in sdTgt : x.content = content /\ x.dir = BucketOf(content)
SdEntries == {sdLog[i] : i \in 1..Len(sdLog)}

\* no video is deleted and the counter is the number of files that came
\* into corrupt/
SdKeepsAndCounts ==
    sdAtStart # <<>> =>
        /\ Cardinality(sdSrc) + Cardinality(sdTgt)
              = Cardinality(sdAtStart[1].src) + Cardinality(sdAtStart[1].tgt)
        /\ {x.content : x \in sdAtStart[1].src} \subseteq {x.content : x \in sdSrc \cup sdTgt}
        /\ sdAtStart[1].tgt \subseteq sdTgt
        /\ sdStats.corrupt =
              Cardinality({x \in sdTgt \ sdAtStart[1].tgt : x.dir = CorruptDir})

\* C14 as stated: after a run with ffprobe at hand, every enumerated video
\* is in its bucket
DurationBucketing ==
    /\ SdKeepsAndCounts
    /\ (sdPc = "done" /\ sdFfprobe) => \A l \in SdEntries : InBucket(l.content)

\* C14 as amended: every video whose rename succeeded is in its bucket,
\* every video whose rename failed is where it was
DurationBucketingMoved ==
    /\ SdKeepsAndCounts
    /\ (sdAtStart # <<>> /\ sdFfprobe) =>
          \A l \in SdEntries :
              IF l.io = "none" THEN InBucket(l.content)
              ELSE \E x \in sdSrc : PathOf(x) = l.path /\ x.content = l.content

\* a video of 1.5 or 2.5 seconds went to 2_sec/ under a suffixed name,
\* another one stayed behind because its rename failed
DurationWitness ==
    /\ sdPc = "done" /\ sdFfprobe
    /\ \E l \in SdEntries :
          /\ l.io = "none" /\ l.content.probe \in {<<3>>, <<5>>}
          /\ l.target # l.path.name
          /\ InBucket(l.content)
    /\ \E l \in SdEntries : l.io = "rename"

(***************************************************************************)
(* C18: when sortImagesByResolution has ended, the SUMMARY line's total is *)
(* the number of image files enumerated and its errors is the number of    *)
(* files whose size read or rename failed.                                 *)
(***************************************************************************)
SummaryReportsRealCounts ==
    siPc = "done" =>
        /\ siSummary[1].total = Cardinality(siFiles)
        /\ siSummary[1].errors = Cardinality(siLog)

(***************************************************************************)
(* C15: each image dedupeImages finds to be a near-duplicate of a kept one *)
(* is moved to Duplicates/<its relative path> (or that name with a numeric *)
(* suffix), every other image stays where it is, and the number of image   *)
(* files below the source, Duplicates/ included, never changes.  (A rename *)
(* that raises ends the run on the spot, see C10: nothing is moved then.)  *)
(***************************************************************************)
ImageCount(tree) == Cardinality({e \in tree : commonIsImage(e.name)})

DuplicatesMovedNotDeleted ==
    [][(diPc = "running" /\ images' # images) =>
          LET p == CHOOSE x \in images : x \notin images'
              e == CHOOSE x \in diTree : PathOf(x) = p
              dup == /\ e.content.ok
                     /\ \E i \in 1..Len(seen) :
                           Distance(e.content.hash, seen[i].hash) <= PHASH_THRESHOLD
              arrived == diTree' \ diTree
          IN /\ ImageCount(diTree') = ImageCount(diTree)
             /\ diTree \ {e} \subseteq diTree'
             /\ ~dup => e \in diTree'
             /\ (dup /\ diPc' # "aborted") =>
                        /\ e \notin diTree'
                        /\ \E x \in arrived :
                              /\ x.content = e.content
                              /\ x.dir = <<"Duplicates">> \o p.dir
                              /\ \/ x.name = p.name
                                 \/ \E i \in 1..MaxImages :
                                       x.name = suffixed(p.name.stem, i, p.name.ext)
       ]_vars

\* a finished run moved a duplicate to a suffixed name, the plain name being
\* taken below Duplicates/, and kept another image in place
DuplicatesWitness ==
    /\ diPc = "done"
    /\ \E i \in 1..Len(diLog) :
          /\ diLog[i].action = "MOVE"
          /\ diLog[i].target.name # diLog[i].path.name
          /\ \E e \in diTree : PathOf(e) = diLog[i].target
    /\ \E i \in 1..Len(diLog) :
          /\ diLog[i].action = "KEEP"
          /\ \E e \in diTree : PathOf(e) = diLog[i].path

(***************************************************************************)
(* C17: files are visited in sorted order, so of the images that are       *)
(* duplicates of each other dedupeImages keeps the first in sorted order:  *)
(* every image moved sorts after the kept image it duplicates.             *)
(***************************************************************************)
\* the place of a path of the drawn trees in the sorted list of paths:
\* a.jpg, b.JPG, sub/a.jpg, sub/b.JPG
SortRank(p) ==
    (IF p.dir = <<>> THEN 0 ELSE 2) + (IF p.name.stem = <<"a">> THEN 0 ELSE 1)

KeepsFirstInSortedOrder ==
    \A i \in 1..Len(diLog) :
        diLog[i].action = "MOVE" => SortRank(diLog[i].dupOf) < SortRank(diLog[i].path)

(***************************************************************************)
(* C12: a pass whose --source is not an existing directory exits with a    *)
(* failure status and has created no directory and no log file.            *)
(***************************************************************************)
MissingSourceAborts ==
    (suSource # "dir" /\ suPc # "start") =>
        /\ suPc = "exited"
        /\ suExit # <<>> /\ suExit[1] # 0
        /\ suMade = {}

\* sortImagesByResolution was given a file as --source and has exited
MissingSourceWitness ==
    /\ suPass = "sortImagesByResolution" /\ suSource = "file"
    /\ suPc = "exited" /\ suExit = <<1>>

(***************************************************************************)
(* C16: the orchestrator runs its passes in order, each one starting only  *)
(* when the one before it has finished.                                    *)
(***************************************************************************)
OneAtATime ==
    /\ diPc # "idle" => fbPc = "done"
    /\ fbPc # "idle" => plSource = "dir"

\* C16 as stated: five passes
PipelineOrder ==
    /\ OneAtATime
    /\ plPc = "done" =>
          /\ Len(plStarted) = 5
          /\ plStarted[1] = "filterBlackImages"
          /\ plStarted[2] \in {"cleanRecoveredFiles", "dedupeVideos"}
          /\ plStarted[3] = "dedupeImages"
          /\ plStarted[4] = "sortImagesByResolution"
          /\ plStarted[5] = "sortVideosByDuration"

\* C16 as amended: filterBlackImages, then dedupeImages, the second only
\* after the first has ended with status 0
PipelineFilterThenDedupe ==
    /\ OneAtATime
    /\ plStarted \in {<<>>, <<"filterBlackImages">>, <<"filterBlackImages", "dedupeImages">>}
    /\ plPc = "step2" => plStarted = <<"filterBlackImages", "dedupeImages">>
    /\ plPc = "done" =>
          /\ plStarted = <<"filterBlackImages", "dedupeImages">>
          /\ fbPc = "done" /\ diPc = "done"

\* the pipeline completed: the filter moved a black image away, then the
\* dedupe moved a duplicate
PipelineWitness ==
    /\ prog = "recoveryPipeline" /\ plPc = "done"
    /\ fbStats.moved >= 1 /\ diStats.moved >= 1

(***************************************************************************)
(* C4: every helper writes only to a path that did not exist just before   *)
(* the call.  Each call leaves the file at the path it returns, and every  *)
(* other file that was in the directory keeps its name and content, so k   *)
(* files moved in from elsewhere make k more files.                        *)
(***************************************************************************)
HelpersNeverOverwrite ==
    [][ Len(mLog') = Len(mLog) + 1 =>
          LET call == mLog'[Len(mLog')]
              moved == IF call.within
                       THEN {[name |-> call.src, content |-> call.content]}
                       ELSE {}
          IN /\ ~exists(mDir, call.target)
             /\ [name |-> call.target, content |-> call.content] \in mDir'
             /\ \A e \in mDir \ moved : e \in mDir'
             /\ Cardinality(mDir') = Cardinality(mDir \ moved) + 1 ]_vars

\* two files with the basename a.jpg were moved with safeMove into a
\* directory that held a.jpg: three distinct files are there
HelpersWitness ==
    /\ Len(mLog) = 2
    /\ \A k \in 1..2 : /\ mLog[k].helper = "safeMove" /\ ~mLog[k].within
                        /\ mLog[k].src = Name(<<"a">>, ".jpg")
    /\ mLog[1].target # mLog[2].target
    /\ [name |-> Name(<<"a">>, ".jpg"), content |-> 0] \in mDir
    /\ Cardinality(mDir) = 3

(***************************************************************************)
(* C5: in dedupeImages an image whose pHash distance to some already kept  *)
(* image is exactly PHASH_THRESHOLD (or less) is a duplicate and is moved  *)
(* below Duplicates/ (unless the rename itself raises); an image whose     *)
(* distance to every kept image is PHASH_THRESHOLD + 1 or more is kept in  *)
(* place.                                                                  *)
(***************************************************************************)
Hashed(i) == diLog[i].action \in {"KEEP", "MOVE", "RAISE"}

KeptBefore(i) == {diLog[j].hash : j \in {k \in 1..(i - 1) : diLog[k].action = "KEEP"}}

ThresholdBoundary ==
    \A i \in 1..Len(diLog) : Hashed(i) =>
        LET r == diLog[i]
            near == \E h \in KeptBefore(i) : Distance(r.hash, h) <= PHASH_THRESHOLD
            far == \A h \in KeptBefore(i) : Distance(r.hash, h) >= PHASH_THRESHOLD + 1
        IN /\ near => /\ r.action \in {"MOVE", "RAISE"}
                      /\ r.action = "MOVE" =>
                            /\ ~\E e \in diTree : PathOf(e) = r.path
                            /\ \E e \in diTree : /\ PathOf(e) = r.target
                                                  /\ e.content.hash = r.hash
                                                  /\ isRelativeTo(r.target, "Duplicates")
           /\ far => /\ r.action = "KEEP"
                     /\ \E e \in diTree : PathOf(e) = r.path /\ e.content.hash = r.hash

\* a finished run kept an image at distance PHASH_THRESHOLD + 1 from a kept
\* one and moved an image at distance PHASH_THRESHOLD from a kept one
ThresholdWitness ==
    /\ diPc = "done"
    /\ \E i \in 1..Len(diLog) :
          /\ diLog[i].action = "KEEP"
          /\ \E h \in KeptBefore(i) : Distance(diLog[i].hash, h) = PHASH_THRESHOLD + 1
    /\ \E i \in 1..Len(diLog) :
          /\ diLog[i].action = "MOVE"
          /\ \E h \in KeptBefore(i) : Distance(diLog[i].hash, h) = PHASH_THRESHOLD

(***************************************************************************)
(* C6: for a non-empty list of non-negative widths and a positive binSize, *)
(* the bins built are [0,binSize-1],[binSize,2*binSize-1],..., contiguous  *)
(* and non-overlapping, the last bin reaches max(widths), every observed   *)
(* width lies in exactly one bin, and findBin returns that bin without     *)
(* taking the bins[-1] fallback.                                           *)
(***************************************************************************)
BinsCoverWidths ==
    built =>
        /\ Len(bins) >= 1
        /\ \A i \in 1..Len(bins) :
              /\ bins[i][1] = (i - 1) * binSize
              /\ bins[i][2] = i * binSize - 1
        /\ bins[Len(bins)][2] >= MaxOf(widths)
        /\ \A k \in 1..Len(widths) :
              Cardinality({i \in 1..Len(bins) :
                  bins[i][1] <= widths[k] /\ widths[k] <= bins[i][2]}) = 1
        /\ found # <<>> =>
              /\ ~found[1].fallback
              /\ found[1].bin[1] <= found[1].width /\ found[1].width <= found[1].bin[2]
              /\ \E i \in 1..Len(bins) : bins[i] = found[1].bin

\* findBin has placed a width that is the largest one and sits on a bin's
\* lower edge, in a list of bins with more than one bin
BinsWitness ==
    /\ built /\ found # <<>>
    /\ Len(bins) >= 2
    /\ found[1].width = MaxOf(widths)
    /\ found[1].width = found[1].bin[1]

(***************************************************************************)
(* C7: analyseImage returns (False, False) when verify or the statistics   *)
(* step raises; otherwise (True, isBlack) with isBlack true exactly when   *)
(* no channel mean exceeds blackMean and no channel stddev exceeds         *)
(* blackStd (both inclusive).                                              *)
(***************************************************************************)
NearBlackClassification ==
    analysed # <<>> =>
        LET raised == ~img.verifyOk \/ ~img.statOk
            bright == \E c \in Channels : img.mean[c] > thresholds.mean
            varied == \E c \in Channels : img.stddev[c] > thresholds.std
        IN /\ raised => analysed[1].result = <<FALSE, FALSE>>
           /\ ~raised => /\ analysed[1].result[1] = TRUE
                         /\ analysed[1].result[2] = (~bright /\ ~varied)

\* an image with a channel mean exactly at the threshold was found black
NearBlackWitness ==
    /\ analysed # <<>>
    /\ analysed[1].result = <<TRUE, TRUE>>
    /\ \E c \in Channels : img.mean[c] = thresholds.mean /\ thresholds.mean > 0
    /\ \E c \in Channels : img.stddev[c] = thresholds.std

(***************************************************************************)
(* C21: the ETA field of the progress line.                                *)
(***************************************************************************)
Sentinel == <<"-", "-", ":", "-", "-", ":", "-", "-">>

DigitValue(c) == CHOOSE d \in 0..9 : Digit(d) = c

\* the seconds an HH:MM:SS field stands for
EtaSeconds(eta) ==
    (DigitValue(eta[1]) * 10 + DigitValue(eta[2])) * 3600
        + (DigitValue(eta[4]) * 10 + DigitValue(eta[5])) * 60
        + (DigitValue(eta[7]) * 10 + DigitValue(eta[8]))

\* eta is HH:MM:SS for n whole seconds
IsHms(eta, n) ==
    /\ Len(eta) = 8 /\ eta[3] = ":" /\ eta[6] = ":"
    /\ \A i \in {1, 2, 4, 5, 7, 8} : \E d \in 0..9 : eta[i] = Digit(d)
    /\ DigitValue(eta[4]) < 6 /\ DigitValue(eta[7]) < 6
    /\ EtaSeconds(eta) = n

\* C21 as stated: every call renders a line; its ETA field is --:--:-- when
\* done = 0 or total <= 0, and otherwise elapsed*(total-done)/done as
\* HH:MM:SS
EtaSentinel ==
    prOut # <<>> =>
        /\ prOut[1].printed
        /\ (prDone = 0 \/ prTotal <= 0) => prOut[1].eta = Sentinel
        /\ ~(prDone = 0 \/ prTotal <= 0) =>
               IsHms(prOut[1].eta, (prElapsed * (prTotal - prDone)) \div prDone)

\* C21 as amended: a call with total <= 0 prints nothing; a call with
\* total > 0 prints a line whose ETA field is --:--:-- when done = 0 or the
\* remaining time elapsed*(total-done)/done is not positive, 99:59:59 when
\* the remaining time is 100 hours or more, and otherwise the whole seconds
\* of the remaining time as HH:MM:SS
EtaRendered ==
    prOut # <<>> =>
        LET r == prOut[1]
            num == prElapsed * (prTotal - prDone)
        IN /\ r.printed <=> prTotal > 0
           /\ r.printed =>
                IF prDone = 0 \/ num <= 0 THEN r.eta = Sentinel
                ELSE IF num \div prDone >= 360000
                     THEN r.eta = <<"9", "9", ":", "5", "9", ":", "5", "9">>
                     ELSE IsHms(r.eta, num \div prDone)

\* a line was rendered for a call with done = 0
EtaWitness ==
    /\ prOut # <<>> /\ prOut[1].printed
    /\ prDone = 0 /\ prElapsed > 0 /\ prOut[1].eta = Sentinel

(***************************************************************************)
(* C22: two processes inside safeMove for the same destination name can    *)
(* both pass the existence check for one target; the later rename then     *)
(* replaces the file the earlier one placed, and that content is lost.     *)
(* A process renames only to the target its own check found free, so two   *)
(* returned calls with one target are two passed checks for that target.   *)
(***************************************************************************)
RcContents == {e.content : e \in rcDir}

SameTarget ==
    /\ \A p \in Procs : rcProc[p].pc = "returned"
    /\ rcProc[1].target = rcProc[2].target

\* when both calls have returned the same target, the directory holds the
\* content of exactly one of the two files, under that target; when both
\* have returned different targets, it holds both
RaceLosesContent ==
    /\ SameTarget =>
          /\ Cardinality(RcContents \cap Procs) = 1
          /\ \E e \in rcDir : e.name = rcProc[1].target /\ e.content \in Procs
    /\ ((\A p \in Procs : rcProc[p].pc = "returned") /\ ~SameTarget) =>
          Procs \subseteq RcContents

\* both calls returned the same path and the file of process 1 is gone
RaceWitness ==
    /\ SameTarget
    /\ rcProc[1].name = rcProc[2].name
    /\ 1 \notin RcContents /\ 2 \in RcContents

(***************************************************************************)
(* C23: a call of safeMove or safeRename leaves the destination directory  *)
(* existing, moves the file to the requested name when no entry has that   *)
(* name, otherwise to <stem>_<i><suffix> with the smallest i >= 1 that no  *)
(* entry has, and returns the path that now holds the file.                *)
(***************************************************************************)
IsCall == Len(mLog') = Len(mLog) + 1 /\ mLog'[Len(mLog')].helper \in {"safeMove", "safeRename"}

SafeMoverStep ==
    IsCall =>
        LET c == mLog'[Len(mLog')]
            free(n) == ~exists(mDir, n)
            numbered(i) == suffixed(c.src.stem, i, c.src.ext)
        IN /\ mMade'
           /\ free(c.src) => c.target = c.src
           /\ ~free(c.src) =>
                 \E i \in 1..(Cardinality(mDir) + 1) :
                     /\ c.target = numbered(i)
                     /\ free(numbered(i))
                     /\ \A j \in 1..(i - 1) : ~free(numbered(j))
           \* the returned path holds the file, and nothing else changed
           /\ [name |-> c.target, content |-> c.content] \in mDir'
           /\ mDir' \ {[name |-> c.target, content |-> c.content]}
                 = mDir \ {[name |-> c.src, content |-> c.content]}

SafeMoverNaming == [][SafeMoverStep]_vars

\* a call that made the directory and used the requested name, then a call
\* for the same name that went to _1
SafeMoverWitness ==
    /\ Len(mLog) = 2
    /\ \A k \in 1..2 : mLog[k].helper \in {"safeMove", "safeRename"}
    /\ ~mLog[1].existed /\ mLog[1].target = mLog[1].src
    /\ mLog[2].src = mLog[1].src
    /\ mLog[2].target = suffixed(mLog[2].src.stem, 1, mLog[2].src.ext)

(***************************************************************************)
(* C24: where sortImagesByResolution leaves each enumerated image.  Every  *)
(* drawn image carries its first directory in content.from, so the file    *)
(* enumerated at path f is the entry whose content.from is f.dir.          *)
(***************************************************************************)
SiInSource(f) == {x \in siSrc : x.content.from = f.dir}
SiInTarget(f) == {x \in siTgt.files : x.content.from = f.dir}
SiSizeOf(f) == (CHOOSE x \in SiInSource(f) \cup SiInTarget(f) : TRUE).content.size

\* the folder of the bin [k*binSize, k*binSize + binSize - 1] that holds w
SiBucketOf(w) ==
    LET low == (w \div siBinSize) * siBinSize
    IN <<binLabel(low, low + siBinSize - 1)>>

SiInBucket(f) ==
    /\ SiInSource(f) = {}
    /\ \E x \in SiInTarget(f) :
          /\ SiInTarget(f) = {x}
          /\ x.dir = SiBucketOf(x.content.size[1])
SiInPlace(f) ==
    /\ SiInTarget(f) = {}
    /\ \E x \in SiInSource(f) : SiInSource(f) = {x} /\ PathOf(x) = f

SiUnread == {f \in siFiles : SiSizeOf(f) = <<>>}
SiLabelsDistinct ==
    \A i, j \in 1..Len(siBins) :
        i # j => binLabel(siBins[i][1], siBins[i][2]) # binLabel(siBins[j][1], siBins[j][2])

\* C24 as stated: after the run every image whose size was read is in the
\* folder of the bin that holds its width, every image whose size could not
\* be read is at its path, and errors counts the unread images
PlacementAll ==
    siPc = "done" =>
        /\ \A f \in siFiles :
              /\ Cardinality(SiInSource(f) \cup SiInTarget(f)) = 1
              /\ IF SiSizeOf(f) # <<>> THEN SiInBucket(f) ELSE SiInPlace(f)
        /\ SiLabelsDistinct
        /\ siStats.errors >= Cardinality(SiUnread)

\* C24 as amended: an image whose size was read is in the folder of its bin
\* unless safeRename raised for it; then it is at its path with an ERROR
\* line, like the images whose size could not be read; errors counts both
PlacementMoved ==
    siPc = "done" =>
        /\ \A f \in siFiles :
              /\ Cardinality(SiInSource(f) \cup SiInTarget(f)) = 1
              /\ IF SiSizeOf(f) = <<>>
                 THEN SiInPlace(f) /\ [path |-> f, what |-> "size"] \in siLog
                 ELSE \/ SiInBucket(f) /\ [path |-> f, what |-> "rename"] \notin siLog
                      \/ SiInPlace(f) /\ [path |-> f, what |-> "rename"] \in siLog
        /\ SiLabelsDistinct
        /\ siStats.moved = Cardinality({f \in siFiles : SiInTarget(f) # {}})
        /\ siStats.errors = Cardinality(SiUnread)
              + Cardinality({f \in siFiles \ SiUnread : SiInTarget(f) = {}})

\* a run that moved one image into its folder, past a file of the same name,
\* and left an unreadable one in place
PlacementWitness ==
    /\ siPc = "done"
    /\ \E f, g \in siFiles :
          /\ SiSizeOf(f) # <<>> /\ SiInBucket(f)
          /\ \E x \in SiInTarget(f) : x.name # f.name
          /\ SiSizeOf(g) = <<>> /\ SiInPlace(g)

(***************************************************************************)
(* C25: at every point of a run of dedupeImages any two kept images are    *)
(* more than PHASH_THRESHOLD apart, the dict seen holds exactly the kept   *)
(* images, every kept image is still at its path, and every image moved    *)
(* below Duplicates/ is within PHASH_THRESHOLD of a kept image.            *)
(***************************************************************************)
KeptEntries == {i \in 1..Len(diLog) : diLog[i].action = "KEEP"}
MovedEntries == {i \in 1..Len(diLog) : diLog[i].action = "MOVE"}

OneKeptPerGroup ==
    /\ \A i, j \in KeptEntries :
          i # j => Distance(diLog[i].hash, diLog[j].hash) > PHASH_THRESHOLD
    /\ {[hash |-> diLog[i].hash, path |-> diLog[i].path] : i \in KeptEntries}
          = {seen[k] : k \in 1..Len(seen)}
    /\ \A i \in KeptEntries :
          \E e \in diTree : PathOf(e) = diLog[i].path /\ e.content.hash = diLog[i].hash
    /\ \A i \in MovedEntries :
          /\ \E e \in diTree : PathOf(e) = diLog[i].target /\ e.content.hash = diLog[i].hash
          /\ \E j \in KeptEntries :
                /\ j < i
                /\ Distance(diLog[i].hash, diLog[j].hash) <= PHASH_THRESHOLD
                /\ diLog[i].dupOf = diLog[j].path

\* a finished run kept two images and moved a third
OneKeptWitness ==
    /\ diPc = "done"
    /\ Cardinality(KeptEntries) = 2
    /\ MovedEntries # {}

(***************************************************************************)
(* C26: a real run of dedupeVideos that directly follows a complete,       *)
(* error-free real run on the same folder moves and renames nothing: no    *)
(* step of it changes the tree, and its moved counter stays 0.             *)
(***************************************************************************)
IsRerun ==
    /\ dvPc = "running" /\ ~dvDry
    /\ dvPrev = <<[dry |-> FALSE, pc |-> "done", errors |-> 0]>>

RerunMovesNothing ==
    [][IsRerun => (dvTree' = dvTree /\ dvStats'.moved = 0)]_vars

(***************************************************************************)
(* C27: in a pipeline run, the files filterBlackImages put below           *)
(* BlackImages/ stay at their paths while dedupeImages runs, and           *)
(* dedupeImages does not enumerate (count) any path below BlackImages/.    *)
(* The drawn sources hold no BlackImages/ folder, so the files below it    *)
(* are the ones step 1 moved.                                              *)
(***************************************************************************)
BelowBlack(tree) == {e \in tree : isRelativeTo(PathOf(e), "BlackImages")}

BlackImagesStay ==
    [][(prog = "recoveryPipeline" /\ plPc = "step2") =>
           /\ BelowBlack(diTree') = BelowBlack(diTree)
           /\ \A p \in images' : ~isRelativeTo(p, "BlackImages")
      ]_vars

(***************************************************************************)
(* C28: in a real run, a file that the name-pattern check of lines 263-274 *)
(* skips has its content below the target already: a file whose content is *)
(* not at the destination is never skipped by that check.                  *)
(***************************************************************************)
ResumeSkipsOnlyCopies ==
    [][(crPc = "running" /\ ~dryRun /\ Len(order') = Len(order) + 1) =>
          LET f == order'[Len(order')]
              kind == classifyFile(f.name, f.content.size, minVideoSize)
              skippedByName ==
                  /\ crPc' = "running"
                  /\ Passes(f)
                  /\ resumeHit(tgtFiles, destDirOf(kind), f.name)
          IN skippedByName =>
                 \E e \in tgtFiles : e.content.bytes = f.content.bytes
      ]_vars

(***************************************************************************)
(* C29: for every integer --width-bin and every non-empty list of widths,  *)
(* buildWidthBins returns.                                                 *)
(***************************************************************************)
BinsTerminate == <>(blPc = "returned")

(***************************************************************************)
(* C30: every enumerated file is counted in exactly one outcome.  After    *)
(* each iteration of processFiles that ran to its end, totalFiles is the   *)
(* sum of the seven outcome counters; after a completed run of dedupeImages*)
(* and of dedupeVideos total = kept + moved + errors; after a completed    *)
(* run of filterBlackImages total = moved + kept.                          *)
(***************************************************************************)
OutcomeSum(st) ==
    st.tinySkipped + st.imageInvalid + st.imageBlack + st.duplicatesSkipped
        + st.imagesCopied + st.videosCopied + st.othersCopied

CountedOnce ==
    /\ crPc \in {"running", "done"} =>
          /\ run.stats.totalFiles = OutcomeSum(run.stats)
          /\ run.stats.totalFiles = Len(order)
    /\ diPc = "done" =>
          /\ diStats.total = diStats.kept + diStats.moved + diStats.errors
          /\ diStats.total = Len(diLog) - 1
    /\ dvPc = "done" => dvStats.total = dvStats.kept + dvStats.moved + dvStats.errors
    /\ fbPc = "done" => fbStats.total = fbStats.moved + fbStats.kept

\* a run of cleanRecoveredFiles that counted a file in each of three
\* different outcomes
CountedWitness ==
    /\ crPc = "done"
    /\ run.stats.totalFiles = 3
    /\ run.stats.duplicatesSkipped = 1
    /\ run.stats.imagesCopied = 1
    /\ run.stats.tinySkipped + run.stats.imageInvalid + run.stats.imageBlack = 1

====
